---------------------------- MODULE Spec2Model ----------------------------
(***************************************************************************)
(* hll-rust: cardinality estimators (exact, Flajolet-Martin, linear,       *)
(* HyperLogLog), the FASTA record / k-mer streaming engine and the         *)
(* record-parallel counting pipeline.                                      *)
(*                                                                         *)
(* 64-bit words are bit vectors [0..63 -> {0,1}], bit 0 least significant, *)
(* so shifts, reversals and comparisons keep the width of the source.      *)
(* Bytes are their ASCII codes.                                            *)
(***************************************************************************)
EXTENDS Integers, Sequences, FiniteSets, Bags, TLC

(***************************************************************************)
(* Bounds of the model.                                                    *)
(***************************************************************************)
\* longest byte string handed to get_canonical / reverse_complement
MaxCanonLen == 3
\* k-mer length of the packed pipeline (the source fixes 31; the shift
\* 64 - 2k and the 2k-bit mask are kept, k is scaled down)
K_MER_LENGTH == 3

(***************************************************************************)
(* Program constants.                                                      *)
(***************************************************************************)
U64_BITS == 64

(***************************************************************************)
(* 64-bit unsigned words.                                                  *)
(***************************************************************************)
BitIdx == 0..(U64_BITS - 1)

Pow2(n) == 2 ^ n

\* the u64 with value n, for 0 <= n < 2^31
U64(n) == [i \in BitIdx |-> IF i < 31 THEN (n \div Pow2(i)) % 2 ELSE 0]

RECURSIVE SumBits(_, _)
SumBits(x, i) == IF i < 0 THEN 0 ELSE x[i] * Pow2(i) + SumBits(x, i - 1)

\* the value of a word whose bits 31.. are clear
U64Val(x) == SumBits(x, 30)

FitsInt(x) == \A i \in BitIdx : i >= 31 => x[i] = 0

U64Zero == [i \in BitIdx |-> 0]

Shl(x, n) == [i \in BitIdx |-> IF i >= n THEN x[i - n] ELSE 0]

Shr(x, n) == [i \in BitIdx |-> IF i + n < U64_BITS THEN x[i + n] ELSE 0]

BitAnd(x, y) == [i \in BitIdx |-> x[i] * y[i]]

BitOr(x, y) == [i \in BitIdx |-> IF x[i] + y[i] > 0 THEN 1 ELSE 0]

BitXor(x, y) == [i \in BitIdx |-> (x[i] + y[i]) % 2]

\* (1u64 << n) - 1, for n < 64
LowMask(n) == [i \in BitIdx |-> IF i < n THEN 1 ELSE 0]

\* u64::reverse_bits
reverse_bits(x) == [i \in BitIdx |-> x[U64_BITS - 1 - i]]

\* unsigned x < y
U64Lt(x, y) ==
    \E i \in BitIdx : /\ x[i] < y[i]
                      /\ \A j \in BitIdx : j > i => x[j] = y[j]

\* u64::trailing_zeros (64 for the zero word)
trailing_zeros(x) ==
    IF \A i \in BitIdx : x[i] = 0 THEN U64_BITS
    ELSE CHOOSE i \in BitIdx : x[i] = 1 /\ \A j \in BitIdx : j < i => x[j] = 0

Min(a, b) == IF a <= b THEN a ELSE b

Max(a, b) == IF a >= b THEN a ELSE b

(***************************************************************************)
(* Bytes and byte strings.                                                 *)
(***************************************************************************)
bA == 65
bC == 67
bG == 71
bT == 84
bN == 78
ba == 97
bc == 99
bg == 103
bt == 116
bn == 110
bGT == 62
bNL == 10
bSP == 32

\* Ord for byte slices: element-wise, then by length
RECURSIVE SliceLe(_, _)
SliceLe(x, y) ==
    IF x = << >> THEN TRUE
    ELSE IF y = << >> THEN FALSE
    ELSE IF Head(x) < Head(y) THEN TRUE
    ELSE IF Head(x) > Head(y) THEN FALSE
    ELSE SliceLe(Tail(x), Tail(y))

Rev(s) == [i \in 1..Len(s) |-> s[Len(s) + 1 - i]]

(***************************************************************************)
(* fasta.rs: reverse complement and canonical form of a byte string.       *)
(***************************************************************************)
\* mutation of complement_base: case is not preserved
complement_base_upper(base) ==
    CASE base = bA -> bT
      [] base = bT -> bA
      [] base = bC -> bG
      [] base = bG -> bC
      [] base = ba -> bT
      [] base = bt -> bA
      [] base = bc -> bG
      [] base = bg -> bC
      [] OTHER -> base

\* the match of reverse_complement
complement_base(base) ==
    CASE base = bA -> bT
      [] base = bT -> bA
      [] base = bC -> bG
      [] base = bG -> bC
      [] base = ba -> bt
      [] base = bt -> ba
      [] base = bc -> bg
      [] base = bg -> bc
      [] OTHER -> base

reverse_complement(seq) ==
    [i \in 1..Len(seq) |-> complement_base(seq[Len(seq) + 1 - i])]

\* mutation of get_canonical: keeps the larger strand
get_canonical_larger(kmer) ==
    LET rc == reverse_complement(kmer)
    IN  IF SliceLe(kmer, rc) THEN rc ELSE kmer

get_canonical(kmer) ==
    LET rc == reverse_complement(kmer)
    IN  IF SliceLe(kmer, rc) THEN kmer ELSE rc

(***************************************************************************)
(* parallel_counting.rs: 2-bit packing and packed canonical form.          *)
(***************************************************************************)
INVALID_CODE == 255

\* the ENCODING table
ENCODING(byte) ==
    CASE byte = bA \/ byte = ba -> 0
      [] byte = bC \/ byte = bc -> 1
      [] byte = bG \/ byte = bg -> 2
      [] byte = bT \/ byte = bt -> 3
      [] OTHER -> INVALID_CODE

\* (1u64 << 2 * K_MER_LENGTH) - 1
K_MER_MASK == LowMask(2 * K_MER_LENGTH)

\* 0x5555555555555555
EvenBits == [i \in BitIdx |-> IF i % 2 = 0 THEN 1 ELSE 0]

\* mutation of get_canonical_u64: the 2-bit lanes are not swapped back
get_canonical_u64_noswap(kmer) ==
    LET r1 == Shr(reverse_bits(kmer), U64_BITS - 2 * K_MER_LENGTH)
        r3 == BitXor(r1, LowMask(2 * K_MER_LENGTH))
    IN  IF U64Lt(kmer, r3) THEN kmer ELSE r3

get_canonical_u64(kmer) ==
    LET r1 == Shr(reverse_bits(kmer), U64_BITS - 2 * K_MER_LENGTH)
        r2 == BitOr(BitAnd(Shr(r1, 1), EvenBits), Shl(BitAnd(r1, EvenBits), 1))
        r3 == BitXor(r2, LowMask(2 * K_MER_LENGTH))
    IN  IF U64Lt(kmer, r3) THEN kmer ELSE r3

\* mutation of roll: the window is not masked to 2k bits
roll_nomask(kmer_u64, code) == BitOr(Shl(kmer_u64, 2), U64(code))

\* one step of the rolling window: ((kmer_u64 << 2) & K_MER_MASK) | code
roll(kmer_u64, code) == BitOr(BitAnd(Shl(kmer_u64, 2), K_MER_MASK), U64(code))

(***************************************************************************)
(* Hash strategies.  Every counter is generic over S: BuildHasher +        *)
(* Default and calls hasher.hash_one(item).  A strategy is a fixed         *)
(* function on 64-bit items (S::default() of the strategies the callers    *)
(* use is deterministic); two strategies are modelled: the identity and    *)
(* an xor with a fixed key.                                                *)
(***************************************************************************)
Strategies == {"identity", "xorkey"}

XorKey == [i \in BitIdx |-> IF i = 5 \/ i = 40 THEN 1 ELSE 0]

hash_one(S, item) == IF S = "identity" THEN item ELSE BitXor(item, XorKey)

RECURSIVE Pow2Mod(_, _)
\* 2^k % n, by squaring
Pow2Mod(k, n) ==
    IF k = 0 THEN 1 % n
    ELSE LET h == Pow2Mod(k \div 2, n)
         IN  (((h * h) % n) * (IF k % 2 = 1 THEN 2 ELSE 1)) % n

RECURSIVE ModRange(_, _, _, _)
\* the value of the bits lo..hi of x (bit lo weighing 1), modulo n
ModRange(x, lo, hi, n) ==
    IF lo = hi THEN x[lo] % n
    ELSE LET mid == (lo + hi) \div 2
         IN  (ModRange(x, lo, mid, n)
                + Pow2Mod(mid + 1 - lo, n) * ModRange(x, mid + 1, hi, n)) % n

\* x % n for a 64-bit x and 0 < n < 2^15
U64Mod(x, n) == ModRange(x, 0, U64_BITS - 1, n)

(***************************************************************************)
(* Fixed-point values of the f64 results: estimates are in thousandths.    *)
(***************************************************************************)
\* fraction bits of the sum of 2^-register; smaller terms round to 0
FRAC_BITS == 12

\* returned when the sum of 2^-register is below the fixed-point resolution
EstSaturated == 2147483647

\* ln(n) * 10^6, n = 1..40
LnTable ==
    << 0, 693147, 1098612, 1386294, 1609438, 1791759, 1945910, 2079442,
       2197225, 2302585, 2397895, 2484907, 2564949, 2639057, 2708050,
       2772589, 2833213, 2890372, 2944439, 2995732, 3044522, 3091042,
       3135494, 3178054, 3218876, 3258097, 3295837, 3332205, 3367296,
       3401197, 3433987, 3465736, 3496508, 3526361, 3555348, 3583519,
       3610918, 3637586, 3663562, 3688879 >>

\* size * ln(num / den), in thousandths
ScaledLn(size, num, den) == (size * (LnTable[num] - LnTable[den])) \div 1000

\* (n / d) * 1000 for d given in units of 10^-5, without overflow
DivBy1e5(n, d) ==
    LET q == (n * 100000) \div d
        r == (n * 100000) % d
    IN  q * 1000 + (r * 1000) \div d

RECURSIVE SumOver(_, _, _)
\* sum of f[i] for i in lo..hi
SumOver(f, lo, hi) == IF lo > hi THEN 0 ELSE f[lo] + SumOver(f, lo + 1, hi)

(***************************************************************************)
(* Bytes of a bitset.                                                      *)
(***************************************************************************)
U8_MAX == 255

ByteBit(byte, j) == (byte \div Pow2(j)) % 2

\* byte | (1 << j)
SetBit(byte, j) == IF ByteBit(byte, j) = 1 THEN byte ELSE byte + Pow2(j)

\* u8::trailing_ones
trailing_ones(byte) ==
    IF byte = U8_MAX THEN 8
    ELSE CHOOSE j \in 0..7 : ByteBit(byte, j) = 0 /\ \A i \in 0..(j - 1) : ByteBit(byte, i) = 1

\* u8::count_zeros
count_zeros(byte) == Cardinality({j \in 0..7 : ByteBit(byte, j) = 0})

\* usize::div_ceil(8)
div_ceil8(n) == (n + 7) \div 8

(***************************************************************************)
(* counters/hll_counter.rs                                                 *)
(***************************************************************************)
AM_4 == 673
AM_5 == 697
AM_6 == 709

\* the am of HLLCounter::new, in thousandths
AlphaM(size) ==
    CASE size <= 4 -> AM_4
      [] size = 5 -> AM_5
      [] size = 6 -> AM_6
      [] OTHER -> (721300 * Pow2(size)) \div (1000 * Pow2(size) + 1079)

HLLNew(size) ==
    [size |-> size, registers |-> [i \in 0..(Pow2(size) - 1) |-> 0]]

\* mutation of add_hash: the candidate is taken from the leading zeros of the
\* 64 - size bits that remain
add_hash_leading(self, hash) ==
    LET index == U64Val(BitAnd(hash, LowMask(self.size)))
        remainder == Shr(hash, self.size)
        top == {i \in BitIdx : remainder[i] = 1}
        lead == IF top = {} THEN U64_BITS
                ELSE U64_BITS - 1 - (CHOOSE i \in top : \A j \in top : i >= j)
        rho == Min(lead - self.size + 1, U64_BITS - self.size)
    IN  [self EXCEPT !.registers[index] = Max(self.registers[index], rho)]

\* mutation of add_hash: the candidate is not capped
add_hash_uncapped(self, hash) ==
    LET index == U64Val(BitAnd(hash, LowMask(self.size)))
        remainder == Shr(hash, self.size)
        rho == trailing_zeros(remainder) + 1
    IN  [self EXCEPT !.registers[index] = Max(self.registers[index], rho)]

\* mutation of add_hash: the register is overwritten instead of maximised
add_hash_overwrite(self, hash) ==
    LET index == U64Val(BitAnd(hash, LowMask(self.size)))
        remainder == Shr(hash, self.size)
        rho == Min(trailing_zeros(remainder) + 1, U64_BITS - self.size)
    IN  [self EXCEPT !.registers[index] = rho]

add_hash(self, hash) ==
    LET index == U64Val(BitAnd(hash, LowMask(self.size)))
        remainder == Shr(hash, self.size)
        rho == Min(trailing_zeros(remainder) + 1, U64_BITS - self.size)
    IN  [self EXCEPT !.registers[index] = Max(self.registers[index], rho)]

\* Counter::add for HLLCounter; the item is the 64-bit word of its bytes
HLLAdd(self, S, item) == add_hash(self, hash_one(S, item))

\* mutation of add_u64: the integer is taken for its own hash
add_u64_raw(self, S, item) == add_hash(self, item)

add_u64(self, S, item) == add_hash(self, hash_one(S, item))

\* mutation of merge: the other sketch's registers are copied
merge_copy(self, other) == [self EXCEPT !.registers = other.registers]

\* mutation of merge: registers are added, saturating at the register cap
merge_sum(self, other) ==
    [self EXCEPT !.registers =
        [i \in DOMAIN self.registers |->
            Min(self.registers[i] + other.registers[i], U64_BITS - self.size)]]

\* HLLCounter::merge for equal sizes (the assert_eq! holds)
merge(self, other) ==
    [self EXCEPT !.registers =
        [i \in DOMAIN self.registers |->
            Max(self.registers[i], other.registers[i])]]

\* sum of 2^-register, in units of 2^-FRAC_BITS
HLLDenominator(self) ==
    LET term == [i \in DOMAIN self.registers |->
                    IF self.registers[i] <= FRAC_BITS
                    THEN Pow2(FRAC_BITS - self.registers[i]) ELSE 0]
    IN  SumOver(term, 0, Pow2(self.size) - 1)

\* numerator / denominator of estimate, in thousandths
HLLRaw(self) ==
    LET m == Pow2(self.size)
        d == HLLDenominator(self)
    IN  IF d = 0 THEN EstSaturated
        ELSE (AlphaM(self.size) * m * m * Pow2(FRAC_BITS)) \div d

HLLZeros(self) == Cardinality({i \in DOMAIN self.registers : self.registers[i] = 0})

\* HLLCounter::estimate, in thousandths.  The large-range branch needs a
\* raw estimate above 2^64/30, which is beyond the fixed-point range and
\* reported as EstSaturated.
HLLEstimate(self) ==
    LET m == Pow2(self.size)
        raw == HLLRaw(self)
        zeros == HLLZeros(self)
    IN  IF raw <= 2500 * m
        THEN IF zeros > 0 THEN ScaledLn(m, m, zeros) ELSE raw
        ELSE raw

\* sum of 2^(64 - register), the denominator of estimate in units of 2^-64,
\* for registers within FRAC_BITS of 64
HLLDenominator64(self) ==
    SumOver([i \in DOMAIN self.registers |-> Pow2(U64_BITS - self.registers[i])],
            0, Pow2(self.size) - 1)

\* estimate > 2^64 / 30 for the raw estimate: am * m * m * 30 > 2^64 * sum of
\* 2^-register.  A register of 64 - FRAC_BITS or less alone makes the right
\* side exceed the left for every precision of the model.
AboveLargeRange(self) ==
    /\ \A i \in DOMAIN self.registers : self.registers[i] > U64_BITS - FRAC_BITS
    /\ 30 * AlphaM(self.size) * Pow2(self.size) * Pow2(self.size)
          > 1000 * HLLDenominator64(self)

\* mutation of estimate_branch: linear counting whenever a register is zero
estimate_branch_zeros_only(self) ==
    IF HLLZeros(self) > 0 THEN "linear_counting"
    ELSE IF AboveLargeRange(self) THEN "large_range"
    ELSE "raw"

\* the formula HLLCounter::estimate returns the value of
estimate_branch(self) ==
    IF HLLRaw(self) <= 2500 * Pow2(self.size)
    THEN IF HLLZeros(self) > 0 THEN "linear_counting" ELSE "raw"
    ELSE IF AboveLargeRange(self) THEN "large_range"
    ELSE "raw"

RECURSIVE AtanhSeries(_, _, _)
\* sum of z^(2k+1) / (2k+1) from the term of power p = z^(2k+1) on, z and the
\* sum in units of 10^-4
AtanhSeries(z, p, k) ==
    IF p = 0 THEN 0
    ELSE p \div (2 * k + 1)
            + AtanhSeries(z, (((p * z) \div 10000) * z) \div 10000, k + 1)

\* ln(a / b) for a > b > 0, in thousandths: 2 * atanh((a - b) / (a + b))
LnRatio(a, b) ==
    LET z == ((a - b) * 10000) \div (a + b)
    IN  (2 * AtanhSeries(z, z, 0)) \div 10

\* -2^64 * ln(1 - estimate * 2^-64), in thousandths of 2^64
LargeRangeValue(self) ==
    LET a == 1000 * HLLDenominator64(self)
        b == a - AlphaM(self.size) * Pow2(self.size) * Pow2(self.size)
    IN  LnRatio(a, b)

\* HLLCounter::estimate with the formula taken: the value is in thousandths,
\* and in thousandths of 2^64 after the large-range correction
estimate(self) ==
    LET branch == estimate_branch(self)
        m == Pow2(self.size)
    IN  [branch |-> branch,
         unit |-> IF branch = "large_range" THEN "2^64" ELSE "1",
         value |-> CASE branch = "linear_counting" -> ScaledLn(m, m, HLLZeros(self))
                     [] branch = "large_range" -> LargeRangeValue(self)
                     [] OTHER -> HLLRaw(self)]

(***************************************************************************)
(* counters/fm_counter.rs                                                  *)
(***************************************************************************)
\* PHI = 0.77351, in units of 10^-5
PHI == 77351

FMNew(size) == [size |-> size, bitset |-> [i \in 0..(div_ceil8(size) - 1) |-> 0]]

FMAdd(self, S, item) ==
    LET hash == hash_one(S, item)
        index == Min(trailing_zeros(hash), self.size - 1)
    IN  [self EXCEPT !.bitset[index \div 8] = SetBit(@, index % 8)]

\* mutation of first_zero_bit: the fallback position is reported for every bitset
first_zero_bit_fallback(self) == self.size - 1

first_zero_bit(self) ==
    LET open == {i \in DOMAIN self.bitset : self.bitset[i] # U8_MAX}
    IN  IF open = {} THEN self.size - 1
        ELSE LET idx == CHOOSE i \in open : \A j \in open : i <= j
             IN  idx * 8 + trailing_ones(self.bitset[idx])

\* FMCounter::estimate, in thousandths
FMEstimate(self) == DivBy1e5(Pow2(first_zero_bit(self)), PHI)

(***************************************************************************)
(* counters/linear_counter.rs                                              *)
(***************************************************************************)
LinearNew(size) ==
    [size |-> size, bit_array |-> [i \in 0..(div_ceil8(size) - 1) |-> 0]]

\* mutation of LinearAdd: the index is taken modulo the bits of the byte array
LinearAdd_padded(self, S, item) ==
    LET hash == hash_one(S, item)
        index == U64Mod(hash, 8 * div_ceil8(self.size))
    IN  [self EXCEPT !.bit_array[index \div 8] = SetBit(@, index % 8)]

LinearAdd(self, S, item) ==
    LET hash == hash_one(S, item)
        index == U64Mod(hash, self.size)
    IN  [self EXCEPT !.bit_array[index \div 8] = SetBit(@, index % 8)]

\* mutation of num_unset_bits: the set bits are counted
num_set_bits(self) ==
    LET ones == [i \in DOMAIN self.bit_array |-> 8 - count_zeros(self.bit_array[i])]
    IN  Max(1, SumOver(ones, 0, div_ceil8(self.size) - 1))

num_unset_bits(self) ==
    LET zeros == [i \in DOMAIN self.bit_array |-> count_zeros(self.bit_array[i])]
    IN  Max(1, SumOver(zeros, 0, div_ceil8(self.size) - 1))

\* LinearCounter::estimate, in thousandths
LinearEstimate(self) == ScaledLn(self.size, self.size, num_unset_bits(self))

(***************************************************************************)
(* counters/hash_counter.rs                                                *)
(***************************************************************************)
HashNew == [counter |-> {}]

HashAdd(self, S, item) == [self EXCEPT !.counter = @ \cup {hash_one(S, item)}]

\* HashCounter::estimate, in thousandths
HashEstimate(self) == Cardinality(self.counter) * 1000

(***************************************************************************)
(* fasta.rs: the input stream.  read_line delivers the next line of the    *)
(* input (with its terminator), or 0 bytes at end of input.  The input is  *)
(* chosen line by line as it is read, at most input.limit lines.           *)
(***************************************************************************)
MaxLines == 4

\* header lines: ">1\n" and ">>2 \n"
HeaderLines == { <<bGT, 49, bNL>>, <<bGT, bGT, 50, bSP, bNL>> }

\* sequence lines: "\n", "A\n", "AT\n", "GCA\n", " gn\r\n" and an unterminated "T"
SequenceLines ==
    { <<bNL>>, <<bA, bNL>>, <<bA, bT, bNL>>, <<bG, bC, bA, bNL>>,
      <<bSP, bg, bn, 13, bNL>>, <<bT>> }

Lines == HeaderLines \cup SequenceLines

\* char::is_whitespace on ASCII
is_whitespace(b) == b \in {9, 10, 11, 12, 13, bSP}

RECURSIVE trim_start(_)
trim_start(s) ==
    IF s # << >> /\ is_whitespace(Head(s)) THEN trim_start(Tail(s)) ELSE s

RECURSIVE trim_end(_)
trim_end(s) ==
    IF s # << >> /\ is_whitespace(s[Len(s)])
    THEN trim_end(SubSeq(s, 1, Len(s) - 1)) ELSE s

\* str::trim
trim(s) == trim_end(trim_start(s))

RECURSIVE trim_start_matches_gt(_)
\* str::trim_start_matches('>')
trim_start_matches_gt(s) ==
    IF s # << >> /\ Head(s) = bGT THEN trim_start_matches_gt(Tail(s)) ELSE s

\* str::starts_with('>')
starts_with_gt(s) == s # << >> /\ s[1] = bGT

\* what one read_line call can deliver: the rest of a line whose read
\* failed, or else a line, or << >> at end of input
Outcomes(input) ==
    IF input.pending # << >> THEN { input.pending }
    ELSE IF input.atEnd \/ input.nread >= input.limit THEN { << >> }
    ELSE Lines \cup { << >> }

\* the lines a read can fail in the middle of
LinesToCome(input) ==
    IF input.pending # << >> THEN { input.pending }
    ELSE IF input.atEnd \/ input.nread >= input.limit THEN { }
    ELSE Lines

\* after how many bytes of the line o a read can fail: inside the line, and
\* at its end when the line has no terminator
FailPoints(o) == { j \in 1..Len(o) : j < Len(o) \/ o[Len(o)] # bNL }

\* the reader, its input and the record of what was read, threaded through
\* the calls of one operation
Ctx(rd, inp, tr) ==
    [reader |-> rd, input |-> inp, trace |-> tr, bytes_read |-> 0, failed |-> FALSE]

\* the record of a line of the input that a read has begun
begin_line(ctx, o) ==
    IF ctx.input.pending # << >> \/ o = << >> THEN ctx
    ELSE [ctx EXCEPT
            !.input.nread = @ + 1,
            !.trace.headers = IF starts_with_gt(o) THEN Append(@, o) ELSE @,
            !.trace.wellFormed = @ /\ ~(ctx.input.nread = 0 /\ ~starts_with_gt(o)),
            !.trace.recSeq = IF ~starts_with_gt(o) THEN @ \o trim(o) ELSE @]

\* self.reader.read_line(&mut self.line): appends the line to the buffer and
\* returns its length, or fails (Err) while the input has faults left; the
\* bytes read before the failure stay in the buffer, and the rest of the
\* line is what the next read finds
read_line(ctx) ==
    { [begin_line(ctx, o) EXCEPT
         !.reader.line = @ \o o,
         !.bytes_read = Len(o),
         !.failed = FALSE,
         !.input.pending = << >>,
         !.input.atEnd = o = << >> \/ o[Len(o)] # bNL]
      : o \in Outcomes(ctx.input) }
    \cup
    { [ctx EXCEPT
         !.bytes_read = 0,
         !.failed = TRUE,
         !.input.faults = @ - 1,
         !.trace.faults = @ + 1]
      : f \in IF ctx.input.faults > 0 /\ ~ctx.input.atEnd THEN {TRUE} ELSE {} }
    \cup
    UNION { { [begin_line(ctx, o) EXCEPT
                 !.reader.line = @ \o SubSeq(o, 1, j),
                 !.bytes_read = 0,
                 !.failed = TRUE,
                 !.input.pending = SubSeq(o, j + 1, Len(o)),
                 !.input.atEnd = j = Len(o),
                 !.input.faults = @ - 1,
                 !.trace.faults = @ + 1]
              : j \in FailPoints(o) }
            : o \in IF ctx.input.faults > 0 THEN LinesToCome(ctx.input) ELSE {} }

\* mutation of clear_line: the buffer keeps what it holds
clear_line_keep(ctx) == ctx

\* self.line.clear()
clear_line(ctx) == [ctx EXCEPT !.reader.line = << >>]

(***************************************************************************)
(* fasta.rs: FastaReader                                                   *)
(***************************************************************************)
\* Option::None: no byte string, and different from every byte string
NoId == << 0 - 1 >>

FastaReaderNew == [line |-> << >>, finished |-> FALSE, id |-> NoId]

\* mutation of set_finished: the end of the input is not recorded
set_finished_skip(ctx) == ctx

\* self.finished = true
set_finished(ctx) == [ctx EXCEPT !.reader.finished = TRUE]

\* the id stored by next_record
record_id(line) == trim_end(trim_start_matches_gt(line))

\* mutation of next_record_parse: the offending line is dropped
next_record_parse_skip(ctx) ==
    IF ~starts_with_gt(ctx.reader.line)
    THEN [ctx |-> [ctx EXCEPT !.reader.line = << >>], ret |-> "err"]
    ELSE [ctx |-> [ctx EXCEPT !.reader.id = record_id(ctx.reader.line),
                              !.reader.line = << >>,
                              !.trace.reported = Append(@, record_id(ctx.reader.line)),
                              !.trace.recSeq = << >>],
          ret |-> "true"]

\* the tail of next_record, after the line is available
next_record_parse(ctx) ==
    IF ~starts_with_gt(ctx.reader.line)
    THEN [ctx |-> ctx, ret |-> "err"]
    ELSE [ctx |-> [ctx EXCEPT !.reader.id = record_id(ctx.reader.line),
                              !.reader.line = << >>,
                              !.trace.reported = Append(@, record_id(ctx.reader.line)),
                              !.trace.recSeq = << >>],
          ret |-> "true"]

\* FastaReader::next_record: the set of (state, return value) it can reach
next_record(ctx) ==
    IF ctx.reader.finished THEN { [ctx |-> ctx, ret |-> "false"] }
    ELSE IF ctx.reader.line = << >>
    THEN { IF c.failed
           THEN [ctx |-> c, ret |-> "ioerr"]
           ELSE IF c.bytes_read = 0
           THEN [ctx |-> set_finished(c), ret |-> "false"]
           ELSE next_record_parse(c) : c \in read_line(clear_line(ctx)) }
    ELSE { next_record_parse(ctx) }

RECURSIVE read_sequence_loop(_, _)
read_sequence_loop(ctx, sequence) ==
    UNION { IF c.failed
            THEN { [ctx |-> c, ret |-> << >>, err |-> TRUE] }
            ELSE IF c.bytes_read = 0
            THEN { [ctx |-> set_finished(c), ret |-> sequence,
                    err |-> FALSE] }
            ELSE IF starts_with_gt(c.reader.line)
            THEN { [ctx |-> c, ret |-> sequence, err |-> FALSE] }
            ELSE read_sequence_loop(c, sequence \o trim(c.reader.line))
          : c \in read_line(clear_line(ctx)) }

\* FastaReader::read_sequence
read_sequence(ctx) == read_sequence_loop(ctx, << >>)

(***************************************************************************)
(* fasta.rs: KmerStream and CanonicalKmerStream                            *)
(***************************************************************************)
NoStream ==
    [active |-> FALSE, k |-> 0, buffer |-> << >>, stream_finished |-> FALSE,
     canonical |-> FALSE]

\* KmerStream::new, wrapped by CanonicalKmerStream::new when canonical
KmerStreamNew(k, canonical) ==
    [active |-> TRUE, k |-> k, buffer |-> << >>, stream_finished |-> FALSE,
     canonical |-> canonical]

RECURSIVE fill_buffer(_, _)
\* KmerStream::fill_buffer: the set of (state, stream) it can reach
fill_buffer(ctx, st) ==
    IF ~(Len(st.buffer) < st.k /\ ~st.stream_finished)
    THEN { [ctx |-> ctx, st |-> st, err |-> FALSE] }
    ELSE UNION {
           IF c.failed
           THEN { [ctx |-> c, st |-> st, err |-> TRUE] }
           ELSE IF c.bytes_read = 0 \/ starts_with_gt(c.reader.line)
           THEN { [ctx |-> IF c.bytes_read = 0
                           THEN set_finished(c) ELSE c,
                   st |-> [st EXCEPT !.stream_finished = TRUE],
                   err |-> FALSE] }
           ELSE fill_buffer(c, [st EXCEPT !.buffer = @ \o trim(c.reader.line)])
         : c \in read_line(clear_line(ctx)) }

\* mutation of pop_front: the window does not advance
pop_front_stuck(buffer) == buffer

\* VecDeque::pop_front
pop_front(buffer) == IF buffer = << >> THEN buffer ELSE Tail(buffer)

\* buffer.iter().take(k).cloned().collect()
take(buffer, k) == SubSeq(buffer, 1, Min(k, Len(buffer)))

\* what CanonicalKmerStream::next makes of a window; the plain stream
\* returns it as it is
yield_of(st, kmer) == IF st.canonical THEN get_canonical(kmer) ELSE kmer

\* Iterator::next of KmerStream / CanonicalKmerStream
kmer_next(ctx, st) ==
    IF st.stream_finished /\ Len(st.buffer) < st.k
    THEN { [ctx |-> ctx, st |-> st, ret |-> "None", kmer |-> << >>] }
    ELSE { IF f.err
           THEN [ctx |-> f.ctx, st |-> f.st, ret |-> "Err", kmer |-> << >>]
           ELSE IF Len(f.st.buffer) < f.st.k
           THEN [ctx |-> f.ctx, st |-> f.st, ret |-> "None", kmer |-> << >>]
           ELSE [ctx |-> f.ctx,
                 st |-> [f.st EXCEPT !.buffer = pop_front(@)],
                 ret |-> "Some",
                 kmer |-> yield_of(f.st, take(f.st.buffer, f.st.k))]
         : f \in fill_buffer(ctx, st) }

RECURSIVE drop_loop(_)
drop_loop(ctx) ==
    UNION { IF c.failed \/ c.bytes_read = 0
            THEN { set_finished(c) }
            ELSE IF starts_with_gt(c.reader.line) THEN { c }
            ELSE drop_loop(c)
          : c \in read_line(clear_line(ctx)) }

\* mutation of the early return of drop: the rest is always consumed
drop_skips_always(st) == FALSE

\* the early return of drop: nothing is left to consume
drop_skips(st) == st.stream_finished

\* Drop for KmerStream
kmer_drop(ctx, st) == IF drop_skips(st) THEN { ctx } ELSE drop_loop(ctx)

(***************************************************************************)
(* State.                                                                  *)
(***************************************************************************)
VARIABLES
    \* FASTA engine
    reader,     \* the FastaReader: line, finished, id
    input,      \* the input stream: lines delivered, end reached
    stream,     \* the KmerStream borrowed from the reader, if any
    trace,      \* what was read and returned so far
    result,     \* the last call and what it returned
    \* canonical forms
    canonIn,    \* the byte string handed to the functions
    canonOut,   \* what they returned
    \* the per-record scan of the pipeline
    scanIn,     \* the record's bytes
    scanOut,    \* the count, the sketch and the windows emitted
    \* counters
    hasher,     \* the hash strategy S of every counter of the run
    sketches,   \* HyperLogLog sketches a, b, c being fed and merged
    fed,        \* what was fed and merged so far
    counters,   \* one counter of each variant, fed the same items
    previous,   \* the counters before the last add
    \* the parallel pipeline
    source,     \* the record iterator shared by the workers
    workers,    \* the record each worker holds
    parts,      \* the (count, sketch) pairs not yet reduced
    final       \* the pair run_parallel_fasta_analysis returns

fastaVars == << reader, input, stream, trace, result >>

canonVars == << canonIn, canonOut >>

scanVars == << scanIn, scanOut >>

mergeVars == << sketches, fed >>

counterVars == << counters, previous >>

pipeVars == << source, workers, parts, final >>

vars == << reader, input, stream, trace, result, canonIn, canonOut, scanIn,
           scanOut, hasher, sketches, fed, counters, previous, source, workers,
           parts, final >>

\* the parts of the state a specification does not use stay as they are
Idle == "idle"

FastaIdle ==
    /\ reader = Idle /\ input = Idle /\ stream = Idle /\ trace = Idle
    /\ result = Idle

CanonIdle == canonIn = Idle /\ canonOut = Idle

ScanIdle == scanIn = Idle /\ scanOut = Idle

MergeIdle == sketches = Idle /\ fed = Idle

CounterIdle == counters = Idle /\ previous = Idle

PipeIdle == source = Idle /\ workers = Idle /\ parts = Idle /\ final = Idle

(***************************************************************************)
(* The FASTA engine: a caller driving one FastaReader.                     *)
(***************************************************************************)
\* largest k handed to kmers / canonical_kmers
MaxK == 3
\* windows a caller takes from one stream
MaxYield == 6

NoResult == [op |-> "none", ret |-> "none", value |-> << >>, prev |-> "ready"]

FastaInit ==
    /\ reader = FastaReaderNew
    /\ input = [nread |-> 0, atEnd |-> FALSE, faults |-> 0, pending |-> << >>,
                limit |-> MaxLines]
    /\ stream = NoStream
    /\ trace = [headers |-> << >>, reported |-> << >>, recSeq |-> << >>,
                yielded |-> << >>, phase |-> "ready", mark |-> 0, prevMark |-> 0,
                early |-> FALSE, faults |-> 0, surfaced |-> 0, wellFormed |-> TRUE]
    /\ result = NoResult

\* reader.next_record()
NextRecord ==
    /\ ~stream.active
    /\ \E r \in next_record(Ctx(reader, input, trace)) :
         /\ reader' = r.ctx.reader
         /\ input' = r.ctx.input
         /\ trace' = [r.ctx.trace EXCEPT
                        !.phase = CASE r.ret = "true" -> "open"
                                    [] r.ret = "false" -> "finished"
                                    [] OTHER -> "failed",
                        !.mark = IF r.ret = "true" THEN Len(r.ctx.trace.headers) ELSE @,
                        !.prevMark = IF r.ret = "true" THEN trace.mark ELSE @,
                        !.surfaced = IF r.ret = "ioerr" THEN @ + 1 ELSE @]
         /\ result' = [op |-> "next_record", ret |-> r.ret, value |-> << >>,
                       prev |-> trace.phase]
    /\ UNCHANGED << stream, canonVars, scanVars, hasher, mergeVars, counterVars, pipeVars >>

\* reader.read_sequence()
ReadSequence ==
    /\ ~stream.active
    /\ \E r \in read_sequence(Ctx(reader, input, trace)) :
         /\ reader' = r.ctx.reader
         /\ input' = r.ctx.input
         /\ trace' = [r.ctx.trace EXCEPT
                        !.phase = IF r.err THEN "failed" ELSE "read",
                        !.surfaced = IF r.err THEN @ + 1 ELSE @]
         /\ result' = [op |-> "read_sequence", ret |-> IF r.err THEN "ioerr" ELSE "Ok",
                       value |-> r.ret, prev |-> trace.phase]
    /\ UNCHANGED << stream, canonVars, scanVars, hasher, mergeVars, counterVars, pipeVars >>

\* reader.kmers(k) and reader.canonical_kmers(k): the stream borrows the reader
Kmers ==
    /\ ~stream.active
    /\ \E k \in 0..MaxK, canonical \in BOOLEAN :
         stream' = KmerStreamNew(k, canonical)
    /\ trace' = [trace EXCEPT !.yielded = << >>,
                              !.phase = IF @ = "open" THEN "streaming" ELSE "restream"]
    /\ result' = [op |-> "kmers", ret |-> "stream", value |-> << >>,
                  prev |-> trace.phase]
    /\ UNCHANGED << reader, input >>
    /\ UNCHANGED << canonVars, scanVars, hasher, mergeVars, counterVars, pipeVars >>

\* one next() on the stream
KmerNext ==
    /\ stream.active
    /\ Len(trace.yielded) < MaxYield
    /\ \E r \in kmer_next(Ctx(reader, input, trace), stream) :
         /\ reader' = r.ctx.reader
         /\ input' = r.ctx.input
         /\ stream' = r.st
         /\ trace' = [r.ctx.trace EXCEPT
                        !.yielded = IF r.ret = "Some" THEN Append(@, r.kmer) ELSE @,
                        !.surfaced = IF r.ret = "Err" THEN @ + 1 ELSE @]
         /\ result' = [op |-> "next", ret |-> r.ret, value |-> r.kmer,
                       prev |-> trace.phase]
    /\ UNCHANGED << canonVars, scanVars, hasher, mergeVars, counterVars, pipeVars >>

\* the stream goes out of scope
KmerDrop ==
    /\ stream.active
    /\ \E c \in kmer_drop(Ctx(reader, input, trace), stream) :
         /\ reader' = c.reader
         /\ input' = c.input
         /\ trace' = [c.trace EXCEPT
                        !.phase = IF @ = "streaming" THEN "released" ELSE "abandoned",
                        !.early = ~stream.stream_finished]
    /\ stream' = NoStream
    /\ result' = [op |-> "drop", ret |-> "none", value |-> << >>,
                  prev |-> trace.phase]
    /\ UNCHANGED << canonVars, scanVars, hasher, mergeVars, counterVars, pipeVars >>

Init ==
    /\ FastaInit
    /\ CanonIdle /\ ScanIdle /\ hasher = Idle /\ MergeIdle /\ CounterIdle /\ PipeIdle

Next == NextRecord \/ ReadSequence \/ Kmers \/ KmerNext \/ KmerDrop

Spec == Init /\ [][Next]_vars

(***************************************************************************)
(* The bulk read of the parallel pipeline: the iterator `sequences` calls  *)
(* next_record and, when it returns Ok(true), read_sequence, until         *)
(* next_record returns Ok(false) or an error.                              *)
(***************************************************************************)
BulkInit ==
    /\ FastaInit
    /\ CanonIdle /\ ScanIdle /\ hasher = Idle /\ MergeIdle /\ CounterIdle /\ PipeIdle

\* fasta_reader.next_record(), at the start, after each record was read and
\* after a poll that returned an error
BulkNextRecord ==
    /\ trace.phase \in {"ready", "read", "failed"}
    /\ NextRecord

\* fasta_reader.read_sequence(), in the arm Ok(true)
BulkReadSequence ==
    /\ trace.phase = "open"
    /\ ReadSequence

BulkNext == BulkNextRecord \/ BulkReadSequence

SpecBulk == BulkInit /\ [][BulkNext]_vars

(***************************************************************************)
(* A caller that opens the first record, takes one stream over it and      *)
(* calls next() until it returns None.                                     *)
(***************************************************************************)
DrainInit ==
    /\ reader = FastaReaderNew
    /\ input = [nread |-> 0, atEnd |-> FALSE, faults |-> 0, pending |-> << >>,
                limit |-> MaxLines]
    /\ stream = NoStream
    /\ trace = [headers |-> << >>, reported |-> << >>, recSeq |-> << >>,
                yielded |-> << >>, phase |-> "ready", mark |-> 0, prevMark |-> 0,
                early |-> FALSE, faults |-> 0, surfaced |-> 0, wellFormed |-> TRUE]
    /\ result = [op |-> "none", ret |-> "none", value |-> << >>, prev |-> "ready",
                 calls |-> 0]
    /\ CanonIdle /\ ScanIdle /\ hasher = Idle /\ MergeIdle /\ CounterIdle /\ PipeIdle

\* reader.next_record(), once
DrainNextRecord ==
    /\ trace.phase = "ready"
    /\ \E r \in next_record(Ctx(reader, input, trace)) :
         /\ reader' = r.ctx.reader
         /\ input' = r.ctx.input
         /\ trace' = [r.ctx.trace EXCEPT
                        !.phase = CASE r.ret = "true" -> "open"
                                    [] r.ret = "false" -> "finished"
                                    [] OTHER -> "failed"]
         /\ result' = [result EXCEPT !.op = "next_record", !.ret = r.ret]
    /\ UNCHANGED << stream, canonVars, scanVars, hasher, mergeVars, counterVars, pipeVars >>

\* reader.kmers(k) or reader.canonical_kmers(k) on the open record
DrainKmers ==
    /\ trace.phase = "open"
    /\ \E k \in 0..MaxK, canonical \in BOOLEAN :
         stream' = KmerStreamNew(k, canonical)
    /\ trace' = [trace EXCEPT !.phase = "streaming"]
    /\ result' = [result EXCEPT !.op = "kmers", !.ret = "stream"]
    /\ UNCHANGED << reader, input >>
    /\ UNCHANGED << canonVars, scanVars, hasher, mergeVars, counterVars, pipeVars >>

\* one more next() on the stream, unless the last one returned None; the
\* first MaxYield windows are kept, and the calls are counted modulo 2
DrainNext ==
    /\ stream.active
    /\ ~(result.op = "next" /\ result.ret = "None")
    /\ \E r \in kmer_next(Ctx(reader, input, trace), stream) :
         /\ reader' = r.ctx.reader
         /\ input' = r.ctx.input
         /\ stream' = r.st
         /\ trace' = [r.ctx.trace EXCEPT
                        !.yielded = IF r.ret = "Some" /\ Len(@) < MaxYield
                                    THEN Append(@, r.kmer) ELSE @]
         /\ result' = [op |-> "next", ret |-> r.ret, value |-> r.kmer,
                       prev |-> trace.phase, calls |-> (result.calls + 1) % 2]
    /\ UNCHANGED << canonVars, scanVars, hasher, mergeVars, counterVars, pipeVars >>

DrainStep == DrainNextRecord \/ DrainKmers \/ DrainNext

\* the caller goes on calling next()
SpecDrain == DrainInit /\ [][DrainStep]_vars /\ WF_vars(DrainNext)

(***************************************************************************)
(* The FASTA engine on an input whose reads can fail.                      *)
(***************************************************************************)
\* reads of the input that fail
MaxFaults == 1
\* lines of an input whose reads can fail
MaxFaultyLines == 3

IoInit ==
    /\ reader = FastaReaderNew
    /\ input = [nread |-> 0, atEnd |-> FALSE, faults |-> MaxFaults, pending |-> << >>,
                limit |-> MaxFaultyLines]
    /\ stream = NoStream
    /\ trace = [headers |-> << >>, reported |-> << >>, recSeq |-> << >>,
                yielded |-> << >>, phase |-> "ready", mark |-> 0, prevMark |-> 0,
                early |-> FALSE, faults |-> 0, surfaced |-> 0, wellFormed |-> TRUE]
    /\ result = NoResult
    /\ CanonIdle /\ ScanIdle /\ hasher = Idle /\ MergeIdle /\ CounterIdle /\ PipeIdle

SpecIO == IoInit /\ [][Next]_vars

(***************************************************************************)
(* Canonical forms: get_canonical and get_canonical_u64 applied to one     *)
(* byte string.                                                            *)
(***************************************************************************)
CanonAlphabet == {bA, bC, bG, bT, ba, bc, bg, bt, bN, bn}

\* the byte strings over an alphabet, up to a length
ByteStrings(alphabet, n) == UNION { [1..m -> alphabet] : m \in 0..n }

RECURSIVE pack_from(_, _, _)
\* the rolling window after the bytes seq[i..] were shifted in
pack_from(kmer_u64, seq, i) ==
    IF i > Len(seq) THEN kmer_u64
    ELSE pack_from(roll(kmer_u64, ENCODING(seq[i])), seq, i + 1)

CanonInit ==
    /\ canonIn \in ByteStrings(CanonAlphabet, MaxCanonLen)
    /\ canonOut = [stage |-> "input"]
    /\ FastaIdle /\ ScanIdle /\ hasher = Idle /\ MergeIdle /\ CounterIdle /\ PipeIdle

\* get_canonical(s) and get_canonical(reverse_complement(s))
Canonical ==
    /\ canonOut.stage = "input"
    /\ canonOut' = [stage |-> "bytes",
                    rc |-> reverse_complement(canonIn),
                    canonical |-> get_canonical(canonIn),
                    canonical_of_rc |-> get_canonical(reverse_complement(canonIn))]
    /\ UNCHANGED << canonIn, fastaVars, scanVars, hasher, mergeVars, counterVars, pipeVars >>

\* get_canonical_u64 of the packed window of a full k-mer of valid bases
CanonicalPacked ==
    /\ canonOut.stage = "input"
    /\ Len(canonIn) = K_MER_LENGTH
    /\ \A j \in 1..Len(canonIn) : ENCODING(canonIn[j]) # INVALID_CODE
    /\ canonOut' = [stage |-> "packed",
                    kmer_u64 |-> pack_from(U64Zero, canonIn, 1),
                    canonical |-> get_canonical_u64(pack_from(U64Zero, canonIn, 1))]
    /\ UNCHANGED << canonIn, fastaVars, scanVars, hasher, mergeVars, counterVars, pipeVars >>

CanonNext == Canonical \/ CanonicalPacked

SpecCanon == CanonInit /\ [][CanonNext]_vars

(***************************************************************************)
(* parallel_counting.rs: the map closure of run_parallel_fasta_analysis,   *)
(* applied to one record.                                                  *)
(***************************************************************************)
\* precision of the sketches of the pipeline (the source fixes 16)
SketchPrecision == 2
\* longest record handed to the scan
MaxScanLen == 5

ScanAlphabet == {bA, bc, bG, bt, bN}

\* the locals of the closure; emitted records each window handed to the sketch
ScanStart ==
    [counter |-> HLLNew(SketchPrecision), kmers_seen |-> 0, kmer_u64 |-> U64Zero,
     valid_len |-> 0, emitted |-> << >>]

\* the body of the loop over the record's bytes, at byte pos
scan_byte(st, byte, pos, S) ==
    LET code == ENCODING(byte)
    IN  IF code = INVALID_CODE
        THEN [st EXCEPT !.valid_len = 0, !.kmer_u64 = U64Zero]
        ELSE LET kmer == roll(st.kmer_u64, code)
                 valid == st.valid_len + 1
             IN  IF valid >= K_MER_LENGTH
                 THEN [st EXCEPT
                         !.kmer_u64 = kmer,
                         !.valid_len = valid,
                         !.counter = add_u64(@, S, get_canonical_u64(kmer)),
                         !.kmers_seen = @ + 1,
                         !.emitted = Append(@, [pos |-> pos, kmer_u64 |-> kmer,
                                                canonical |-> get_canonical_u64(kmer)])]
                 ELSE [st EXCEPT !.kmer_u64 = kmer, !.valid_len = valid]

RECURSIVE scan_from(_, _, _, _)
scan_from(st, seq, i, S) ==
    IF i > Len(seq) THEN st
    ELSE scan_from(scan_byte(st, seq[i], i, S), seq, i + 1, S)

\* the closure: (kmers_seen, counter) of one record
scan_record(seq, S) == scan_from(ScanStart, seq, 1, S)

ScanInit ==
    /\ scanIn \in ByteStrings(ScanAlphabet, MaxScanLen)
    /\ scanOut = [stage |-> "input"]
    /\ hasher \in Strategies
    /\ FastaIdle /\ CanonIdle /\ MergeIdle /\ CounterIdle /\ PipeIdle

ScanRecord ==
    /\ scanOut.stage = "input"
    /\ LET st == scan_record(scanIn, hasher)
       IN  scanOut' = [stage |-> "done", kmers_seen |-> st.kmers_seen,
                       counter |-> st.counter, emitted |-> st.emitted]
    /\ UNCHANGED << scanIn, hasher, fastaVars, canonVars, mergeVars, counterVars, pipeVars >>

ScanNext == ScanRecord

SpecScan == ScanInit /\ [][ScanNext]_vars

(***************************************************************************)
(* HyperLogLog sketches of one precision and one hash strategy, fed items  *)
(* and merged into each other.                                             *)
(***************************************************************************)
\* the sketches are fed the 64-bit words 0..MaxMergeItem
MaxMergeItem == 3
\* adds to the sketches a, b, c together
MaxAdds == 3

SketchNames == {"a", "b", "c"}

MergeInit ==
    /\ hasher \in Strategies
    /\ \E size \in 0..SketchPrecision :
         /\ sketches = [x \in SketchNames |-> HLLNew(size)]
         /\ fed = [union |-> HLLNew(size), adds |-> 0, pure |-> TRUE,
                   last |-> [op |-> "new"]]
    /\ FastaIdle /\ CanonIdle /\ ScanIdle /\ CounterIdle /\ PipeIdle

\* x.add(item); fed.union is one sketch given every item given to a or b
AddItem ==
    /\ fed.adds < MaxAdds
    /\ \E x \in SketchNames, n \in 0..MaxMergeItem :
         /\ sketches' = [sketches EXCEPT ![x] = HLLAdd(@, hasher, U64(n))]
         /\ fed' = [fed EXCEPT
                      !.union = IF x \in {"a", "b"} THEN HLLAdd(@, hasher, U64(n)) ELSE @,
                      !.adds = @ + 1,
                      !.last = [op |-> "add", self |-> x]]
    /\ UNCHANGED << hasher, fastaVars, canonVars, scanVars, counterVars, pipeVars >>

\* x.merge(&y), y possibly a copy of x
MergeSketch ==
    /\ \E x \in SketchNames, y \in SketchNames :
         /\ sketches' = [sketches EXCEPT ![x] = merge(@, sketches[y])]
         /\ fed' = [fed EXCEPT
                      !.pure = @ /\ ~(x \in {"a", "b"} /\ y = "c"),
                      !.last = [op |-> "merge", self |-> x, other |-> y]]
    /\ UNCHANGED << hasher, fastaVars, canonVars, scanVars, counterVars, pipeVars >>

MergeNext == AddItem \/ MergeSketch

SpecMerge == MergeInit /\ [][MergeNext]_vars

(***************************************************************************)
(* One HyperLogLog sketch given hash values directly: add_hash on the      *)
(* values a hash strategy can return, among them the ones that drive a     *)
(* register to its cap.                                                    *)
(***************************************************************************)
\* the word whose set bits are the positions in bits
WordOfBits(bits) == [i \in BitIdx |-> IF i \in bits THEN 1 ELSE 0]

\* hash values: few and many trailing zeros after the index bits, high bits
\* set and clear
SketchHashes ==
    { WordOfBits(bits) : bits \in
        { {}, {0}, {1}, {0, 1}, {2}, {0, 2}, {1, 3}, {0, 1, 4}, {63}, {0, 63},
          {1, 62}, {0, 1, 61}, {60}, {5, 40}, {2, 3, 63} } }

SketchInit ==
    /\ \E size \in 0..SketchPrecision : sketches = HLLNew(size)
    /\ fed = [op |-> "new"]
    /\ hasher = Idle
    /\ FastaIdle /\ CanonIdle /\ ScanIdle /\ CounterIdle /\ PipeIdle

\* self.add_hash(hash)
SketchAddHash ==
    /\ \E hash \in SketchHashes :
         /\ sketches' = add_hash(sketches, hash)
         /\ fed' = [op |-> "add_hash", hash |-> hash, before |-> sketches.registers]
    /\ UNCHANGED << hasher, fastaVars, canonVars, scanVars, counterVars, pipeVars >>

\* self.estimate()
SketchEstimate ==
    /\ fed' = [op |-> "estimate", est |-> estimate(sketches)]
    /\ UNCHANGED << sketches, hasher, fastaVars, canonVars, scanVars, counterVars,
                    pipeVars >>

SketchNext == SketchAddHash \/ SketchEstimate

SpecSketch == SketchInit /\ [][SketchNext]_vars

(***************************************************************************)
(* One counter of each variant, fed the items of one run as                *)
(* run_fasta_analysis feeds them, and their estimates.                     *)
(***************************************************************************)
\* largest size of the Flajolet-Martin and linear bitsets
MaxBits == 9
\* the counters are fed the 64-bit words 0..MaxItem
MaxItem == 7

CounterInit ==
    /\ hasher \in Strategies
    /\ \E bits \in 1..MaxBits, size \in 0..SketchPrecision, verbose \in BOOLEAN :
         counters = [exact |-> HashNew, fm |-> FMNew(bits),
                     linear |-> LinearNew(bits), hll |-> HLLNew(size),
                     verbose |-> verbose]
    /\ previous = counters
    /\ FastaIdle /\ CanonIdle /\ ScanIdle /\ MergeIdle /\ PipeIdle

\* one item of the run: add(item) on the HyperLogLog counter, and on the
\* three other counters when the run is verbose
AddToCounters ==
    /\ \E n \in 0..MaxItem :
         counters' =
             IF counters.verbose
             THEN [counters EXCEPT
                     !.linear = LinearAdd(@, hasher, U64(n)),
                     !.fm = FMAdd(@, hasher, U64(n)),
                     !.exact = HashAdd(@, hasher, U64(n)),
                     !.hll = HLLAdd(@, hasher, U64(n))]
             ELSE [counters EXCEPT !.hll = HLLAdd(@, hasher, U64(n))]
    /\ previous' = counters
    /\ UNCHANGED << hasher, fastaVars, canonVars, scanVars, mergeVars, pipeVars >>

CounterNext == AddToCounters

SpecCounters == CounterInit /\ [][CounterNext]_vars

(***************************************************************************)
(* parallel_counting.rs: run_parallel_fasta_analysis.  The records of the  *)
(* input are handed one at a time to whichever worker asks next; a worker  *)
(* maps its record to a (count, sketch) pair; the reduction combines any   *)
(* two pairs, in either order, with any number of identity pairs thrown    *)
(* in, until one pair is left.                                             *)
(***************************************************************************)
\* records of the input
MaxRecords == 3
\* longest record of the input
MaxRecordLen == 3
\* worker threads
NumWorkers == 2
\* identity elements the reduction creates
MaxIdentities == 2

PipeAlphabet == {bA, bt, bN}

NoRecord == [busy |-> FALSE, dead |-> FALSE]

\* a worker whose map closure has panicked: it polls no more
DeadWorker == [busy |-> FALSE, dead |-> TRUE]

NoFinal == [done |-> FALSE]

\* the pair (kmers_seen, counter)
Pair(count, counter) == [count |-> count, counter |-> counter]

\* the items of the iterator `sequences`: Some(Ok(seq)) and Some(Err(e))
OkItem(seq) == [busy |-> TRUE, dead |-> FALSE, err |-> FALSE, seq |-> seq]

ErrItem == [busy |-> TRUE, dead |-> FALSE, err |-> TRUE, seq |-> << >>]

\* a map closure that took a failed read for a record without bases
map_closure_lenient(res, S) ==
    LET st == scan_record(res.seq, S)
    IN  [panic |-> FALSE, value |-> Pair(st.kmers_seen, st.counter)]

\* the map closure: res.expect(..) panics on Err, otherwise the record is scanned
map_closure(res, S) ==
    IF res.err
      THEN [panic |-> TRUE, cause |-> "Error reading sequence"]
      ELSE LET st == scan_record(res.seq, S)
           IN  [panic |-> FALSE, value |-> Pair(st.kmers_seen, st.counter)]

\* the call of run_parallel_fasta_analysis(path), nothing opened yet;
\* source.serial: one sketch and one count fed every record in the order read
PipeInit ==
    /\ hasher \in Strategies
    /\ source = [opened |-> FALSE, taken |-> 0, done |-> FALSE, stuck |-> FALSE,
                 identities |-> 0,
                 serial |-> Pair(0, HLLNew(SketchPrecision)),
                 errors |-> 0, failed |-> FALSE, panicked |-> FALSE]
    /\ workers = [w \in 1..NumWorkers |-> NoRecord]
    /\ parts = EmptyBag
    /\ final = NoFinal
    /\ FastaIdle /\ CanonIdle /\ ScanIdle /\ MergeIdle /\ CounterIdle

\* File::open(path)?: the file is opened and the reader built on it, or the
\* error of the open is returned to the caller
OpenFile ==
    /\ ~source.opened /\ ~final.done
    /\ \/ /\ source' = [source EXCEPT !.opened = TRUE]
          /\ UNCHANGED final
       \/ /\ final' = [done |-> TRUE, ok |-> FALSE, cause |-> "open"]
          /\ UNCHANGED source
    /\ UNCHANGED << workers, parts, hasher, fastaVars, canonVars, scanVars,
                    mergeVars, counterVars >>

\* the iterator `sequences` yields Some(Ok(seq)) to worker w
TakeRecord(w) ==
    /\ source.opened
    /\ ~source.done /\ ~source.stuck /\ source.taken < MaxRecords
    /\ ~workers[w].busy /\ ~workers[w].dead
    /\ \E seq \in ByteStrings(PipeAlphabet, MaxRecordLen) :
         /\ workers' = [workers EXCEPT ![w] = OkItem(seq)]
         /\ \E st \in {scan_from([ScanStart EXCEPT
                                   !.counter = source.serial.counter,
                                   !.kmers_seen = source.serial.count],
                                seq, 1, hasher)} :
                source' = [source EXCEPT
                             !.taken = @ + 1,
                             !.serial = Pair(st.kmers_seen, st.counter)]
    /\ UNCHANGED << parts, final, hasher, fastaVars, canonVars, scanVars,
                    mergeVars, counterVars >>

\* the iterator `sequences` yields None
EndOfInput ==
    /\ source.opened
    /\ ~source.done /\ ~source.stuck
    /\ \E w \in 1..NumWorkers : ~workers[w].busy /\ ~workers[w].dead
    /\ source' = [source EXCEPT !.done = TRUE]
    /\ UNCHANGED << workers, parts, final, hasher, fastaVars, canonVars, scanVars,
                    mergeVars, counterVars >>

\* the map closure on the item worker w holds: a pair, or the panic of
\* expect, which ends the worker
MapRecord(w) ==
    /\ workers[w].busy
    /\ \E out \in {map_closure(workers[w], hasher)} :
           IF out.panic
             THEN /\ source' = [source EXCEPT !.panicked = TRUE]
                  /\ workers' = [workers EXCEPT ![w] = DeadWorker]
                  /\ UNCHANGED parts
             ELSE /\ parts' = parts (+) SetToBag({out.value})
                  /\ workers' = [workers EXCEPT ![w] = NoRecord]
                  /\ UNCHANGED source
    /\ UNCHANGED << final, hasher, fastaVars, canonVars, scanVars,
                    mergeVars, counterVars >>

\* the identity closure of reduce
ReduceIdentity ==
    /\ source.opened
    /\ ~final.done
    /\ source.identities < MaxIdentities
    /\ parts' = parts (+) SetToBag({Pair(0, HLLNew(SketchPrecision))})
    /\ source' = [source EXCEPT !.identities = @ + 1]
    /\ UNCHANGED << workers, final, hasher, fastaVars, canonVars, scanVars,
                    mergeVars, counterVars >>

\* the combining closure of reduce on two of the pairs, a on the left
ReduceCombine ==
    /\ \E a \in BagToSet(parts), b \in BagToSet(parts) :
         /\ a = b => CopiesIn(a, parts) >= 2
         /\ parts' = (parts (-) (SetToBag({a}) (+) SetToBag({b})))
                        (+) SetToBag({Pair(a.count + b.count, merge(a.counter, b.counter))})
    /\ UNCHANGED << source, workers, final, hasher, fastaVars, canonVars, scanVars,
                    mergeVars, counterVars >>

\* Ok(final_counter): the one pair left when the input is exhausted and no
\* closure has panicked
ReturnFinal ==
    /\ ~final.done
    /\ source.done
    /\ ~source.panicked
    /\ \A w \in 1..NumWorkers : ~workers[w].busy
    /\ BagCardinality(parts) = 1
    /\ \E a \in BagToSet(parts) :
         final' = [done |-> TRUE, ok |-> TRUE, count |-> a.count,
                   registers |-> a.counter.registers]
    /\ parts' = EmptyBag
    /\ UNCHANGED << source, workers, hasher, fastaVars, canonVars, scanVars,
                    mergeVars, counterVars >>

PipeNext ==
    \/ OpenFile
    \/ \E w \in 1..NumWorkers : TakeRecord(w)
    \/ EndOfInput
    \/ \E w \in 1..NumWorkers : MapRecord(w)
    \/ ReduceIdentity
    \/ ReduceCombine
    \/ ReturnFinal

SpecPipeline == PipeInit /\ [][PipeNext]_vars

\* reads of the input that fail while the pipeline runs
MaxReadErrors == 1

\* the iterator `sequences` yields Some(Err(e)) to worker w: a read of
\* next_record or read_sequence fails, or next_record finds a line that is no
\* header, at the start of the input or after a failed read; that line stays
\* at the cursor, and from then on every poll returns the format error
TakeError(w) ==
    /\ source.opened
    /\ ~source.done
    /\ ~workers[w].busy /\ ~workers[w].dead
    /\ \/ /\ source.stuck
          /\ source' = [source EXCEPT !.taken = @ + 1]
       \/ /\ ~source.stuck /\ source.taken < MaxRecords
          /\ source.errors > 0
          /\ source' = [source EXCEPT !.taken = @ + 1, !.errors = @ - 1,
                                      !.failed = TRUE]
       \/ /\ ~source.stuck /\ source.taken < MaxRecords
          /\ source.taken = 0 \/ source.failed
          /\ source' = [source EXCEPT !.taken = @ + 1, !.failed = TRUE,
                                      !.stuck = TRUE]
    /\ workers' = [workers EXCEPT ![w] = ErrItem]
    /\ UNCHANGED << parts, final, hasher, fastaVars, canonVars, scanVars,
                    mergeVars, counterVars >>

\* the panic of a closure is resumed in the caller once no worker holds an item
ReturnPanic ==
    /\ ~final.done
    /\ source.panicked
    /\ \A w \in 1..NumWorkers : ~workers[w].busy
    /\ final' = [done |-> TRUE, ok |-> FALSE, cause |-> "panic"]
    /\ UNCHANGED << source, workers, parts, hasher, fastaVars, canonVars, scanVars,
                    mergeVars, counterVars >>

PipeErrInit ==
    /\ hasher \in Strategies
    /\ source = [opened |-> FALSE, taken |-> 0, done |-> FALSE, stuck |-> FALSE,
                 identities |-> 0,
                 serial |-> Pair(0, HLLNew(SketchPrecision)),
                 errors |-> MaxReadErrors, failed |-> FALSE, panicked |-> FALSE]
    /\ workers = [w \in 1..NumWorkers |-> NoRecord]
    /\ parts = EmptyBag
    /\ final = NoFinal
    /\ FastaIdle /\ CanonIdle /\ ScanIdle /\ MergeIdle /\ CounterIdle

PipeErrNext ==
    \/ PipeNext
    \/ \E w \in 1..NumWorkers : TakeError(w)
    \/ ReturnPanic

SpecPipelineErr == PipeErrInit /\ [][PipeErrNext]_vars

(***************************************************************************)
(* Properties of the FASTA engine.                                         *)
(***************************************************************************)
\* id is what is left of a header line without its markers and trailing blanks
IsIdOf(id, raw) ==
    \E a \in 1..Len(raw) : \E b \in a..Len(raw) :
        /\ \A j \in 1..a : raw[j] = bGT
        /\ \A j \in (b + 1)..Len(raw) : raw[j] \in {9, 10, 13, bSP}
        /\ id = SubSeq(raw, a + 1, b)
        /\ id # << >> => id[1] # bGT /\ id[Len(id)] \notin {9, 10, 13, bSP}

\* C4: after next_record() opened a record and a kmers / canonical_kmers
\* stream over it was released (after any number of next() calls), the next
\* next_record() never fails; it returns Ok(true) exactly for the one header
\* line read since the record was opened, with id taken from that line, and
\* Ok(false) only at the end of the input with no header line left unreported.
C4_CursorReadyAfterRelease ==
    (result.op = "next_record" /\ result.prev = "released") =>
        /\ result.ret \in {"true", "false"}
        /\ result.ret = "true" =>
              /\ Len(trace.headers) = trace.prevMark + 1
              /\ trace.mark = Len(trace.headers)
              /\ IsIdOf(reader.id, trace.headers[Len(trace.headers)])
              /\ trace.reported[Len(trace.reported)] = reader.id
        /\ result.ret = "false" =>
              /\ Len(trace.headers) = trace.mark
              /\ input.atEnd
              /\ reader.finished

\* C4 witness: a second record is reported after a stream that had yielded
\* a k-mer was released before it was exhausted
C4_Witness ==
    /\ result.op = "next_record" /\ result.prev = "released"
    /\ result.ret = "true"
    /\ trace.early
    /\ trace.yielded # << >>
    /\ Len(trace.reported) >= 2

\* C5: the windows a kmers(k) stream (k >= 1) over a freshly opened record
\* yields are, in order, s[i..i+k] of the record's trimmed and concatenated
\* sequence lines s, and when the stream ends the record was read to its end
\* and max(0, L-k+1) windows were yielded.
C5_KmersAreWindows ==
    (stream.active /\ ~stream.canonical /\ trace.phase = "streaming" /\ stream.k >= 1) =>
        /\ \A i \in 1..Len(trace.yielded) :
              /\ i + stream.k - 1 <= Len(trace.recSeq)
              /\ trace.yielded[i] = SubSeq(trace.recSeq, i, i + stream.k - 1)
        /\ (result.op = "next" /\ result.ret = "None") =>
              /\ stream.stream_finished
              /\ Len(trace.yielded) = Max(0, Len(trace.recSeq) - stream.k + 1)

\* C5 witness: a stream over a record of several lines ended after at least
\* two windows
C5_Witness ==
    /\ stream.active /\ ~stream.canonical /\ trace.phase = "streaming"
    /\ stream.k >= 2
    /\ result.op = "next" /\ result.ret = "None"
    /\ Len(trace.yielded) >= 2
    /\ Len(trace.recSeq) >= 3

\* the pairing A<->T, C<->G, a<->t, c<->g
BasePairs ==
    { <<bA, bT>>, <<bT, bA>>, <<bC, bG>>, <<bG, bC>>,
      <<ba, bt>>, <<bt, ba>>, <<bc, bg>>, <<bg, bc>> }

Paired(b) ==
    IF \E p \in BasePairs : p[1] = b
    THEN (CHOOSE p \in BasePairs : p[1] = b)[2] ELSE b

\* byte-wise lexicographic order
LexLe(x, y) ==
    \/ \E i \in 1..Min(Len(x), Len(y)) :
          /\ \A j \in 1..(i - 1) : x[j] = y[j]
          /\ x[i] < y[i]
    \/ /\ Len(x) <= Len(y)
       /\ \A j \in 1..Len(x) : x[j] = y[j]

\* y is the smaller of w and the reversed, paired w (w on a tie)
IsCanonicalOf(y, w) ==
    LET rc == [j \in 1..Len(w) |-> Paired(w[Len(w) + 1 - j])]
    IN  /\ LexLe(w, rc) => y = w
        /\ ~LexLe(w, rc) => y = rc

\* C7: a canonical_kmers(k) stream yields, for each window w of the record
\* and in the same order, the byte-wise smaller of w and its reverse
\* complement (w on a tie); the reverse complement reverses w and pairs
\* A<->T, C<->G, a<->t, c<->g, every other byte unchanged.
C7_CanonicalKmersAreMinima ==
    (stream.active /\ stream.canonical /\ trace.phase = "streaming" /\ stream.k >= 1) =>
        /\ \A i \in 1..Len(trace.yielded) :
              /\ i + stream.k - 1 <= Len(trace.recSeq)
              /\ IsCanonicalOf(trace.yielded[i],
                               SubSeq(trace.recSeq, i, i + stream.k - 1))
        /\ (result.op = "next" /\ result.ret = "None") =>
              Len(trace.yielded) = Max(0, Len(trace.recSeq) - stream.k + 1)

\* C7 witness: a canonical stream yielded a reverse complement that keeps a
\* lower-case base and an unpaired byte, and a window that is its own
\* canonical form
C7_Witness ==
    /\ stream.active /\ stream.canonical /\ trace.phase = "streaming"
    /\ stream.k = 2
    /\ \E i \in 1..Len(trace.yielded) :
          /\ trace.yielded[i] # SubSeq(trace.recSeq, i, i + 1)
          /\ \E j \in 1..2 : trace.yielded[i][j] \in {bn, bc}
    /\ \E i \in 1..Len(trace.yielded) :
          trace.yielded[i] = SubSeq(trace.recSeq, i, i + 1)

(***************************************************************************)
(* Properties of the canonical forms and of the per-record scan.           *)
(***************************************************************************)
\* C6: get_canonical(s) = get_canonical(reverse_complement(s)) for every
\* byte string s.
C6_CanonicalOfReverseComplement ==
    canonOut.stage = "bytes" => canonOut.canonical = canonOut.canonical_of_rc

\* C6 witness: a string with lower-case and unpaired bytes whose canonical
\* form is its reverse complement
C6_Witness ==
    /\ canonOut.stage = "bytes"
    /\ canonOut.canonical = canonOut.rc
    /\ canonOut.canonical # canonIn
    /\ \E j \in 1..Len(canonIn) : canonIn[j] \in {ba, bc, bg, bt}
    /\ \E j \in 1..Len(canonIn) : canonIn[j] \in {bN, bn}

\* the 2-bit code of a base: A=0, C=1, G=2, T=3, either case
Code2(b) ==
    CASE b \in {bA, ba} -> 0
      [] b \in {bC, bc} -> 1
      [] b \in {bG, bg} -> 2
      [] b \in {bT, bt} -> 3

RECURSIVE PackValue(_)
\* the number whose base-4 digits are the codes of s, first base first
PackValue(s) ==
    IF s = << >> THEN 0
    ELSE 4 * PackValue(SubSeq(s, 1, Len(s) - 1)) + Code2(s[Len(s)])

\* C8: for every k-mer over {A,C,G,T}, get_canonical_u64 of its 2-bit
\* packing is the 2-bit packing of the byte-wise get_canonical of its letters.
C8_PackedCanonicalParity ==
    (canonOut.stage = "packed" /\ \A j \in 1..Len(canonIn) : canonIn[j] \in {bA, bC, bG, bT}) =>
        /\ canonOut.kmer_u64 = U64(PackValue(canonIn))
        /\ canonOut.canonical = U64(PackValue(get_canonical(canonIn)))

\* C8 witness: an upper-case k-mer whose packed canonical form is that of
\* its reverse complement
C8_Witness ==
    /\ canonOut.stage = "packed"
    /\ \A j \in 1..Len(canonIn) : canonIn[j] \in {bA, bC, bG, bT}
    /\ canonOut.canonical # canonOut.kmer_u64
    /\ canonOut.canonical = U64(PackValue(reverse_complement(canonIn)))

ValidBases == {bA, bC, bG, bT, ba, bc, bg, bt}

\* the k bytes ending at position i of seq are all valid bases
FullWindowAt(seq, i) ==
    /\ i >= K_MER_LENGTH
    /\ \A j \in (i - K_MER_LENGTH + 1)..i : seq[j] \in ValidBases

\* the maximal runs of valid bases of seq, as << first, last >>
ValidRuns(seq) ==
    { r \in (1..Len(seq)) \X (1..Len(seq)) :
        /\ r[1] <= r[2]
        /\ \A j \in r[1]..r[2] : seq[j] \in ValidBases
        /\ r[1] = 1 \/ seq[r[1] - 1] \notin ValidBases
        /\ r[2] = Len(seq) \/ seq[r[2] + 1] \notin ValidBases }

RECURSIVE RunWindows(_)
\* the sum over a set of runs of length r of max(0, r - k + 1)
RunWindows(runs) ==
    IF runs = {} THEN 0
    ELSE LET r == CHOOSE x \in runs : TRUE
         IN  Max(0, r[2] - r[1] + 1 - K_MER_LENGTH + 1) + RunWindows(runs \ {r})

\* C9: the scan emits a packed k-mer at byte position i exactly when the k
\* bytes ending at i are all in {A,C,G,T,a,c,g,t}, in the order of the
\* positions; the value emitted is the 2-bit encoding of those k bytes and
\* is below 2^(2k); the count is the sum over the maximal runs of valid
\* bytes of length r of max(0, r-k+1).
C9_ScanEmitsFullValidWindows ==
    scanOut.stage = "done" =>
        /\ { scanOut.emitted[n].pos : n \in 1..Len(scanOut.emitted) }
              = { i \in 1..Len(scanIn) : FullWindowAt(scanIn, i) }
        /\ \A n \in 1..(Len(scanOut.emitted) - 1) :
              scanOut.emitted[n].pos < scanOut.emitted[n + 1].pos
        /\ \A n \in 1..Len(scanOut.emitted) :
              LET e == scanOut.emitted[n]
              IN  /\ FullWindowAt(scanIn, e.pos)
                  /\ e.kmer_u64 =
                       U64(PackValue(SubSeq(scanIn, e.pos - K_MER_LENGTH + 1, e.pos)))
                  /\ \A b \in BitIdx : b >= 2 * K_MER_LENGTH => e.kmer_u64[b] = 0
        /\ scanOut.kmers_seen = Len(scanOut.emitted)
        /\ scanOut.kmers_seen = RunWindows(ValidRuns(scanIn))

\* C9 witness: a record with a run longer than k, a partial window dropped
\* at an invalid byte and a window emitted after it
C9_Witness ==
    /\ scanOut.stage = "done"
    /\ Len(scanOut.emitted) >= 1
    /\ \E i \in 2..Len(scanIn) :
          /\ scanIn[i] \notin ValidBases
          /\ scanIn[i - 1] \in ValidBases
          /\ \E n \in 1..Len(scanOut.emitted) : scanOut.emitted[n].pos > i
    /\ Cardinality(ValidRuns(scanIn)) >= 2

(***************************************************************************)
(* Properties of the HyperLogLog merge.                                    *)
(***************************************************************************)
Regs(x) == sketches[x].registers

\* the step x.merge(&y) leaves in every register of x the larger of what x
\* and y held there
MergeStepIsMax ==
    fed'.last.op = "merge" /\ fed'.last # fed.last =>
        \A i \in DOMAIN Regs(fed'.last.self) :
            sketches'[fed'.last.self].registers[i]
                = Max(Regs(fed'.last.self)[i], Regs(fed'.last.other)[i])

\* merge is idempotent, commutative and associative on the register arrays
MergeLaws ==
    /\ \A x \in SketchNames :
          merge(sketches[x], sketches[x]).registers = Regs(x)
    /\ \A x \in SketchNames, y \in SketchNames :
          /\ merge(sketches[x], sketches[y]).registers
                = merge(sketches[y], sketches[x]).registers
          /\ \A i \in DOMAIN Regs(x) :
                merge(sketches[x], sketches[y]).registers[i] = Max(Regs(x)[i], Regs(y)[i])
    /\ \A x \in SketchNames, y \in SketchNames, z \in SketchNames :
          merge(merge(sketches[x], sketches[y]), sketches[z]).registers
              = merge(sketches[x], merge(sketches[y], sketches[z])).registers

\* C1: merge is the element-wise maximum of the two register arrays, and
\* is idempotent, commutative and associative on the register arrays.
C1_MergeIsSemilatticeJoin == []MergeLaws /\ [][MergeStepIsMax]_vars

\* C1 witness: three different sketches, one of them just merged with
\* another that is neither empty nor equal to the result
C1_Witness ==
    /\ fed.last.op = "merge" /\ fed.last.self # fed.last.other
    /\ Regs(fed.last.self) # Regs(fed.last.other)
    /\ \E i \in DOMAIN Regs(fed.last.other) : Regs(fed.last.other)[i] > 0
    /\ Regs("a") # Regs("b") /\ Regs("b") # Regs("c") /\ Regs("a") # Regs("c")

\* C2: the registers of a merged with b (either way round) are those of
\* one sketch of the same precision and hash strategy fed every item fed to
\* a and to b, in whatever order the items came.
C2_MergeIsUnion ==
    fed.pure =>
        /\ merge(sketches["a"], sketches["b"]).registers = fed.union.registers
        /\ merge(sketches["b"], sketches["a"]).registers = fed.union.registers
        /\ (fed.last.op = "merge" /\ {fed.last.self, fed.last.other} = {"a", "b"}) =>
              Regs(fed.last.self) = fed.union.registers

\* C2 witness: a and b, both fed, were merged into the union sketch, which
\* differs from the sketch merged in
C2_Witness ==
    /\ fed.pure
    /\ fed.last.op = "merge" /\ {fed.last.self, fed.last.other} = {"a", "b"}
    /\ Regs(fed.last.self) = fed.union.registers
    /\ Regs(fed.last.self) # Regs(fed.last.other)
    /\ \E i \in DOMAIN Regs(fed.last.other) : Regs(fed.last.other)[i] > 0

(***************************************************************************)
(* Properties of the estimates.                                            *)
(***************************************************************************)
\* estimate() takes the linear-counting branch of the small-range correction
UsesLinearCounting(self) ==
    HLLRaw(self) <= 2500 * Pow2(self.size) /\ HLLZeros(self) > 0

\* C10 as stated: after an additional add no variant's estimate() is
\* smaller than before it.
C10_EveryEstimateMonotone ==
    /\ HashEstimate(counters.exact) >= HashEstimate(previous.exact)
    /\ FMEstimate(counters.fm) >= FMEstimate(previous.fm)
    /\ LinearEstimate(counters.linear) >= LinearEstimate(previous.linear)
    /\ HLLEstimate(counters.hll) >= HLLEstimate(previous.hll)

\* C10 amended: the exact, Flajolet-Martin and linear estimates never
\* decrease on an add; the HyperLogLog estimate never decreases on an add
\* unless estimate() used the linear-counting correction before the add
\* and no longer uses it after; its registers and raw estimate never decrease.
C10_MonotoneExceptLeavingLinearCounting ==
    /\ HashEstimate(counters.exact) >= HashEstimate(previous.exact)
    /\ FMEstimate(counters.fm) >= FMEstimate(previous.fm)
    /\ LinearEstimate(counters.linear) >= LinearEstimate(previous.linear)
    /\ \A i \in DOMAIN counters.hll.registers :
          counters.hll.registers[i] >= previous.hll.registers[i]
    /\ HLLRaw(counters.hll) >= HLLRaw(previous.hll)
    /\ (UsesLinearCounting(previous.hll) => UsesLinearCounting(counters.hll)) =>
          HLLEstimate(counters.hll) >= HLLEstimate(previous.hll)

\* C10 witness: an add raised the estimate of every variant, the
\* HyperLogLog one staying on the linear-counting branch
C10_Witness ==
    /\ HashEstimate(counters.exact) > HashEstimate(previous.exact)
    /\ FMEstimate(counters.fm) > FMEstimate(previous.fm)
    /\ LinearEstimate(counters.linear) > LinearEstimate(previous.linear)
    /\ HLLEstimate(counters.hll) > HLLEstimate(previous.hll)
    /\ UsesLinearCounting(previous.hll) /\ UsesLinearCounting(counters.hll)
    /\ HLLZeros(previous.hll) < Pow2(previous.hll.size)

(***************************************************************************)
(* Properties of the parallel pipeline.                                    *)
(***************************************************************************)
\* C3: whatever the assignment of records to workers, the interleaving of
\* the workers and the grouping and order of the reduction (identity pairs
\* included), the pair returned is the sum of the per-record counts and the
\* registers of one sketch fed every record's k-mers in the order read.
C3_ResultIndependentOfSchedule ==
    (final.done /\ final.ok) =>
        /\ final.count = source.serial.count
        /\ final.registers = source.serial.counter.registers

\* C3 witness: a result over several records with k-mers, an identity pair
\* reduced in, and more than one register set
C3_Witness ==
    /\ final.done /\ final.ok
    /\ source.taken >= 2 /\ source.identities >= 1
    /\ final.count >= 3
    /\ Cardinality({i \in DOMAIN final.registers : final.registers[i] > 0}) >= 2

\* C11: estimate() of every variant is non-negative whatever was added, for
\* every construction size >= 1, and the linear counter never counts more
\* unset bits than its size.
C11_EstimatesNonNegative ==
    /\ HashEstimate(counters.exact) >= 0
    /\ FMEstimate(counters.fm) >= 0
    /\ HLLEstimate(counters.hll) >= 0
    /\ num_unset_bits(counters.linear) <= counters.linear.size
    /\ LinearEstimate(counters.linear) >= 0

(***************************************************************************)
(* One counter of any variant and any construction size, size 0 included,  *)
(* with the failures add and estimate can end in.  The arithmetic of        *)
(* usize depends on the build: with overflow checks (debug) an overflow     *)
(* panics, without them (release) it wraps.                                 *)
(***************************************************************************)
Variants == {"exact", "fm", "linear", "hll"}

Builds == {"debug", "release"}

\* the call completed: the counter after it, or the value it returned
Completed(self, value) ==
    [panic |-> FALSE, cause |-> "none", self |-> self, value |-> value]

\* the call panicked: the counter is as it was
Panicked(self, cause) ==
    [panic |-> TRUE, cause |-> cause, self |-> self, value |-> 0]

\* Counter::new of the variant
CounterNew(variant, size) ==
    CASE variant = "exact" -> HashNew
      [] variant = "fm" -> FMNew(size)
      [] variant = "linear" -> LinearNew(size)
      [] OTHER -> HLLNew(size)

\* FMCounter::add.  For size 0 the subtraction size - 1 overflows: checked,
\* it panics; wrapped to usize::MAX, the index is the trailing-zero count
\* and lies outside the empty bitset.
fm_add_checked(self, S, item, build) ==
    IF self.size = 0
    THEN IF build = "debug"
         THEN Panicked(self, "attempt to subtract with overflow")
         ELSE Panicked(self, "index out of bounds")
    ELSE Completed(FMAdd(self, S, item), 0)

\* FMCounter::estimate with the subtraction size - 1 and the shift checked;
\* unwrap_or evaluates size - 1 whether or not it is used
fm_estimate_checked(self, build) ==
    IF self.size = 0
    THEN IF build = "debug"
         THEN Panicked(self, "attempt to subtract with overflow")
         \* 1 << usize::MAX wraps to 1 << 63, beyond the fixed-point range
         ELSE Completed(self, EstSaturated)
    ELSE Completed(self, FMEstimate(self))

\* LinearCounter::add.  For size 0 the remainder hash % 0 panics.
linear_add_checked(self, S, item) ==
    IF self.size = 0
    THEN Panicked(self, "attempt to calculate the remainder with a divisor of zero")
    ELSE Completed(LinearAdd(self, S, item), 0)

\* f64::NAN, the value that is no number
NaN == "NaN"

\* LinearCounter::estimate; for size 0 it is 0 * ln(0 / 1) = 0 * -inf = NaN
linear_estimate_checked(self) ==
    IF self.size = 0 THEN Completed(self, NaN) ELSE Completed(self, LinearEstimate(self))

\* add of the variant
add_checked(variant, self, S, item, build) ==
    CASE variant = "exact" -> Completed(HashAdd(self, S, item), 0)
      [] variant = "fm" -> fm_add_checked(self, S, item, build)
      [] variant = "linear" -> linear_add_checked(self, S, item)
      [] OTHER -> Completed(HLLAdd(self, S, item), 0)

\* estimate of the variant
estimate_checked(variant, self, build) ==
    CASE variant = "exact" -> Completed(self, HashEstimate(self))
      [] variant = "fm" -> fm_estimate_checked(self, build)
      [] variant = "linear" -> linear_estimate_checked(self)
      [] OTHER -> Completed(self, HLLEstimate(self))

\* counters: the counter under test; previous: the last call and its outcome
TotalInit ==
    /\ hasher \in Strategies
    /\ \E variant \in Variants, build \in Builds, size \in 0..MaxBits :
         /\ variant = "hll" => size <= SketchPrecision
         /\ counters = [variant |-> variant, build |-> build,
                        self |-> CounterNew(variant, size)]
    /\ previous = [op |-> "new", panic |-> FALSE, cause |-> "none", value |-> 0]
    /\ FastaIdle /\ CanonIdle /\ ScanIdle /\ MergeIdle /\ PipeIdle

\* counter.add(item)
TotalAdd ==
    /\ ~previous.panic
    /\ \E n \in 0..MaxItem :
         \E out \in {add_checked(counters.variant, counters.self, hasher, U64(n),
                                 counters.build)} :
             /\ counters' = [counters EXCEPT !.self = out.self]
             /\ previous' = [op |-> "add", panic |-> out.panic, cause |-> out.cause,
                             value |-> 0]
    /\ UNCHANGED << hasher, fastaVars, canonVars, scanVars, mergeVars, pipeVars >>

\* counter.estimate()
TotalEstimate ==
    /\ ~previous.panic
    /\ LET out == estimate_checked(counters.variant, counters.self, counters.build)
       IN  previous' = [op |-> "estimate", panic |-> out.panic, cause |-> out.cause,
                        value |-> out.value]
    /\ UNCHANGED << counters, hasher, fastaVars, canonVars, scanVars, mergeVars,
                    pipeVars >>

TotalNext == TotalAdd \/ TotalEstimate

SpecTotal == TotalInit /\ [][TotalNext]_vars

\* C12: add and estimate of every variant complete without failure for
\* every construction size, 0 included, and every item.
C12_AddAndEstimateTotal == ~previous.panic

(***************************************************************************)
(* Two HyperLogLog sketches of possibly different precision, fed items and *)
(* merged, with the assertion of merge.                                    *)
(***************************************************************************)
SketchPair == {"a", "b"}

\* mutation of merge_checked: no assertion; zip stops at the shorter array
merge_unchecked(self, other) ==
    Completed([self EXCEPT !.registers =
                  [i \in DOMAIN self.registers |->
                      IF i \in DOMAIN other.registers
                      THEN Max(self.registers[i], other.registers[i])
                      ELSE self.registers[i]]], 0)

\* HLLCounter::merge: assert_eq!(self.size, other.size), then the maxima
merge_checked(self, other) ==
    IF self.size # other.size
    THEN Panicked(self, "assertion left == right failed")
    ELSE Completed(merge(self, other), 0)

\* fed.last: the last call, whether it panicked, and the sketches before it
AssertInit ==
    /\ hasher \in Strategies
    /\ \E sa \in 0..SketchPrecision, sb \in 0..SketchPrecision :
         sketches = [x \in SketchPair |-> IF x = "a" THEN HLLNew(sa) ELSE HLLNew(sb)]
    /\ fed = [adds |-> 0,
              last |-> [op |-> "new", panic |-> FALSE, self |-> "a", other |-> "a",
                        before |-> sketches]]
    /\ FastaIdle /\ CanonIdle /\ ScanIdle /\ CounterIdle /\ PipeIdle

\* x.add(item)
AssertAdd ==
    /\ ~fed.last.panic
    /\ fed.adds < MaxAdds
    /\ \E x \in SketchPair, n \in 0..MaxMergeItem :
         /\ sketches' = [sketches EXCEPT ![x] = HLLAdd(@, hasher, U64(n))]
         /\ fed' = [adds |-> fed.adds + 1,
                    last |-> [op |-> "add", panic |-> FALSE, self |-> x, other |-> x,
                              before |-> sketches]]
    /\ UNCHANGED << hasher, fastaVars, canonVars, scanVars, counterVars, pipeVars >>

\* x.merge(&y)
AssertMerge ==
    /\ ~fed.last.panic
    /\ \E x \in SketchPair, y \in SketchPair :
         \E out \in {merge_checked(sketches[x], sketches[y])} :
             /\ sketches' = [sketches EXCEPT ![x] = out.self]
             /\ fed' = [fed EXCEPT
                          !.last = [op |-> "merge", panic |-> out.panic, self |-> x,
                                    other |-> y, before |-> sketches]]
    /\ UNCHANGED << hasher, fastaVars, canonVars, scanVars, counterVars, pipeVars >>

AssertNext == AssertAdd \/ AssertMerge

SpecMergeChecked == AssertInit /\ [][AssertNext]_vars

\* C13: a merge of two sketches of different precision fails on the
\* assertion, and the registers of both sketches are what they were.
C13_MergeOfUnequalPrecisionFailsFast ==
    (/\ fed.last.op = "merge"
     /\ fed.last.before[fed.last.self].size # fed.last.before[fed.last.other].size)
        => /\ fed.last.panic
           /\ sketches = fed.last.before

\* C13 witness: a failed merge of two sketches of different precision that
\* both hold items, the larger merged into the smaller
C13_Witness ==
    /\ fed.last.op = "merge" /\ fed.last.panic
    /\ sketches[fed.last.self].size < sketches[fed.last.other].size
    /\ \A x \in SketchPair : \E i \in DOMAIN sketches[x].registers :
           sketches[x].registers[i] > 0

(***************************************************************************)
(* Properties of the errors of the FASTA engine.                           *)
(***************************************************************************)
\* next_record has just returned the format error
FormatErrorReturned == result.op = "next_record" /\ result.ret = "err"

\* after the format error the offending line is still the line at the cursor
FormatErrorKeepsLine ==
    FormatErrorReturned =>
        /\ reader.line # << >> /\ ~starts_with_gt(reader.line)
        /\ ~reader.finished
        /\ trace.phase = "failed"

\* a next_record() that returns the format error leaves the id and the
\* records reported as they were, and one made right after a format error
\* returns the format error again without reading or changing anything
FormatErrorStep ==
    /\ (result'.op = "next_record" /\ result'.ret = "err") =>
          /\ reader'.id = reader.id
          /\ trace'.reported = trace.reported
          /\ trace'.mark = trace.mark
    /\ (FormatErrorReturned /\ result'.op = "next_record") =>
          /\ result'.ret = "err"
          /\ reader' = reader
          /\ input' = input

\* C14: when the line at the cursor does not start with '>', next_record()
\* returns the format error, leaves id as it was, opens no record and keeps
\* the offending line, so that a repeated call reports the same error.
C14_FormatErrorIsNotSkipped == []FormatErrorKeepsLine /\ [][FormatErrorStep]_vars

\* C14 witness: after a record was reported, next_record() returned the
\* format error twice in a row
C14_Witness ==
    /\ FormatErrorReturned
    /\ result.prev = "failed"
    /\ trace.reported # << >>

\* C15: every read failure that happened during next_record, read_sequence,
\* a step of a k-mer stream or the release of a stream was returned to the
\* caller as an error, and the reader is marked finished only at the end of
\* the input.
C15_ReadFailuresAreReported ==
    /\ trace.surfaced = trace.faults
    /\ reader.finished => input.atEnd


(***************************************************************************)
(* Failed reads in the parallel pipeline.                                  *)
(***************************************************************************)
\* C16: once a read of a record has failed, run_parallel_fasta_analysis never
\* returns Ok with a (count, sketch) pair; what the caller gets is the failure
C16_FailedReadNeverReturnsOk ==
    /\ (final.done /\ final.ok) => ~source.failed
    /\ (final.done /\ source.failed) => ~final.ok

\* a failure reached the caller although pairs of earlier records were reduced
C16_Witness ==
    /\ final.done /\ ~final.ok /\ final.cause = "panic"
    /\ source.failed /\ source.taken >= 2
    /\ \E a \in BagToSet(parts) : a.count >= 1


(***************************************************************************)
(* The fast path of the sketch: add_u64.                                   *)
(***************************************************************************)
RECURSIVE FoldRaw(_, _, _)
\* the register-update rule applied to the windows themselves, from the i-th on
FoldRaw(self, emitted, i) ==
    IF i > Len(emitted) THEN self
    ELSE FoldRaw(add_hash(self, emitted[i].canonical), emitted, i + 1)

RECURSIVE FoldHashed(_, _, _, _)
\* the register-update rule applied to the hashes of the windows
FoldHashed(self, S, emitted, i) ==
    IF i > Len(emitted) THEN self
    ELSE FoldHashed(add_hash(self, hash_one(S, emitted[i].canonical)), S, emitted, i + 1)

\* C17 as stated: add_u64(x) updates the registers as the hash-folding step
\* does for the hash value x, so the sketch of a record is the fold of the
\* update rule over its packed canonical windows themselves
C17_AddU64BypassesHashing ==
    scanOut.stage = "done" =>
        scanOut.counter = FoldRaw(HLLNew(SketchPrecision), scanOut.emitted, 1)

\* C17: add_u64(x) hashes the integer x with the sketch's strategy and updates
\* the registers as the hash-folding step does for the hash value hash_one(x)
C17_AddU64HashesTheInteger ==
    scanOut.stage = "done" =>
        scanOut.counter =
            FoldHashed(HLLNew(SketchPrecision), hasher, scanOut.emitted, 1)

\* a record with windows whose sketch is not the one of the raw windows
C17_Witness ==
    /\ scanOut.stage = "done"
    /\ Len(scanOut.emitted) >= 2
    /\ scanOut.counter # FoldRaw(HLLNew(SketchPrecision), scanOut.emitted, 1)


(***************************************************************************)
(* Counters to which nothing has been added.                               *)
(***************************************************************************)
\* no add has been made: every add puts a fingerprint into the exact counter
NoItems == counters.exact.counter = {}

\* C18 as stated: a Flajolet-Martin counter without items reports the position
\* size-1 and the estimate 2^(size-1)/phi
C18_EmptyFMReportsLastPosition ==
    NoItems =>
        /\ first_zero_bit(counters.fm) = counters.fm.size - 1
        /\ FMEstimate(counters.fm) = DivBy1e5(Pow2(counters.fm.size - 1), PHI)

\* C18: a Flajolet-Martin counter without items reports the position 0, the
\* first unset bit of an all-zero bitset, and the estimate 2^0/phi
C18_EmptyFMReportsPositionZero ==
    NoItems =>
        /\ first_zero_bit(counters.fm) = 0
        /\ FMEstimate(counters.fm) = DivBy1e5(1, PHI)

\* an empty Flajolet-Martin counter whose last position is not position 0
C18_Witness ==
    /\ NoItems
    /\ counters.fm.size >= 2
    /\ FMEstimate(counters.fm) # DivBy1e5(Pow2(counters.fm.size - 1), PHI)

\* C19: a linear counter of size n without items counts n unset bits and
\* estimates 0
C19_EmptyLinearEstimatesZero ==
    NoItems =>
        /\ num_unset_bits(counters.linear) = counters.linear.size
        /\ LinearEstimate(counters.linear) = 0


(***************************************************************************)
(* The bulk read: next_record and read_sequence in turn.                   *)
(***************************************************************************)
\* the ids of the header lines read so far, in the order of the input
IdsOf(headers) == [i \in 1..Len(headers) |-> record_id(headers[i])]

\* the header lines read but not yet reported: the one read_sequence stopped at
PendingHeaders == IF starts_with_gt(reader.line) THEN 1 ELSE 0

\* the records reported are the headers of the input, once each and in order,
\* but for the header the cursor rests on
BulkVisitsInOrder ==
    /\ Len(trace.headers) = Len(trace.reported) + PendingHeaders
    /\ trace.reported = SubSeq(IdsOf(trace.headers), 1, Len(trace.reported))

\* next_record returned Ok(true): the record is the last header read
BulkAfterHeader ==
    trace.phase = "open" =>
        /\ result.ret = "true"
        /\ reader.line = << >>
        /\ trace.headers # << >>
        /\ reader.id = record_id(trace.headers[Len(trace.headers)])

\* read_sequence returned: the value is the trimmed content of the lines after
\* the record's header, and the cursor rests on the next header or on the end
BulkAfterSequence ==
    trace.phase = "read" =>
        /\ result.ret = "Ok"
        /\ result.value = trace.recSeq
        /\ \/ /\ starts_with_gt(reader.line)
              /\ reader.line = trace.headers[Len(trace.headers)]
              /\ ~reader.finished
           \/ /\ reader.line = << >>
              /\ reader.finished
              /\ input.atEnd

\* next_record returned Ok(false): the input is used up and every header of it
\* was reported
BulkAtEnd ==
    trace.phase = "finished" =>
        /\ result.ret = "false"
        /\ reader.finished /\ input.atEnd
        /\ Len(trace.reported) = Len(trace.headers)

\* the loop fails only on an input that does not start with a header
BulkFailsOnlyAtStart ==
    trace.phase = "failed" =>
        /\ result.op = "next_record" /\ result.ret = "err"
        /\ trace.headers = << >> /\ trace.reported = << >>
        /\ ~starts_with_gt(reader.line)

\* C20: next_record and read_sequence in turn, until next_record returns
\* Ok(false), visit every record of a well-formed input once and in file order;
\* each read_sequence returns the trimmed content of the lines between the
\* record's header and the next header or the end of the input, and leaves the
\* cursor where the next next_record reports the next header
C20_BulkReadVisitsEveryRecord ==
    /\ BulkVisitsInOrder
    /\ BulkAfterHeader
    /\ BulkAfterSequence
    /\ BulkAtEnd
    /\ BulkFailsOnlyAtStart

\* two records were read, the second with bases, and the input ended
C20_Witness ==
    /\ trace.phase = "finished"
    /\ Len(trace.reported) >= 2
    /\ trace.reported[1] # trace.reported[2]
    /\ trace.recSeq # << >>
    /\ result.op = "next_record" /\ result.ret = "false"


(***************************************************************************)
(* The register update of the HyperLogLog sketch.                          *)
(***************************************************************************)
\* the value of the low p bits of h
LowBits(h, p) == SumOver([i \in 0..63 |-> IF i < p THEN h[i] * Pow2(i) ELSE 0], 0, 63)

\* the bits of h above the low p
RemainingBits(h, p) == { i \in BitIdx : i >= p /\ h[i] = 1 }

\* the zeros of the remaining bits of h below their lowest set bit
TrailingZeroRun(h, p) ==
    IF RemainingBits(h, p) = {} THEN U64_BITS - p
    ELSE (CHOOSE i \in RemainingBits(h, p) : \A j \in RemainingBits(h, p) : i <= j) - p

\* the zeros of the remaining bits of h above their highest set bit
LeadingZeroRun(h, p) ==
    IF RemainingBits(h, p) = {} THEN U64_BITS - p
    ELSE U64_BITS - 1
            - (CHOOSE i \in RemainingBits(h, p) : \A j \in RemainingBits(h, p) : i >= j)

\* the registers after an add of a hash whose zero run is run
UpdatedRegisters(before, h, p, run) ==
    [before EXCEPT ![LowBits(h, p)] = Max(@, Min(run + 1, U64_BITS - p))]

\* C21 as stated: the candidate is the leading-zero run of the remaining bits
\* of the hash, plus one, capped at 64 - p
C21_CandidateFromLeadingZeros ==
    fed.op = "add_hash" =>
        sketches.registers =
            UpdatedRegisters(fed.before, fed.hash, sketches.size,
                             LeadingZeroRun(fed.hash, sketches.size))

\* C21: the register index is the low p bits of the hash; the candidate is the
\* trailing-zero run of the remaining bits, plus one, capped at 64 - p; the
\* register becomes the larger of its value and the candidate, and no other
\* register changes
C21_CandidateFromTrailingZeros ==
    fed.op = "add_hash" =>
        sketches.registers =
            UpdatedRegisters(fed.before, fed.hash, sketches.size,
                             TrailingZeroRun(fed.hash, sketches.size))

\* an add raised one register of several to a candidate below the cap, where
\* the leading-zero run gives another value
C21_Witness ==
    /\ fed.op = "add_hash"
    /\ sketches.size >= 1
    /\ sketches.registers # fed.before
    /\ \E i \in DOMAIN sketches.registers :
          /\ sketches.registers[i] > fed.before[i]
          /\ fed.before[i] > 0
          /\ sketches.registers[i] < U64_BITS - sketches.size
    /\ LeadingZeroRun(fed.hash, sketches.size) # TrailingZeroRun(fed.hash, sketches.size)


(***************************************************************************)
(* The shape of the HyperLogLog sketch.                                    *)
(***************************************************************************)
\* C22: after any adds and merges from HLLCounter::new(p), the register array
\* has exactly 2^p entries and every register is at most 64 - p
C22_RegistersBounded ==
    \A x \in SketchNames :
        /\ DOMAIN Regs(x) = 0..(Pow2(sketches[x].size) - 1)
        /\ Cardinality(DOMAIN Regs(x)) = Pow2(sketches[x].size)
        /\ \A i \in DOMAIN Regs(x) : Regs(x)[i] \in 0..(U64_BITS - sketches[x].size)

\* a merge left a sketch of several registers with one register at the cap
\* and one below it
C22_Witness ==
    /\ fed.last.op = "merge"
    /\ sketches[fed.last.self].size >= 1
    /\ \E i, j \in DOMAIN Regs(fed.last.self) :
          /\ Regs(fed.last.self)[i] = U64_BITS - sketches[fed.last.self].size
          /\ Regs(fed.last.self)[j] \in 1..(U64_BITS - sketches[fed.last.self].size - 1)


(***************************************************************************)
(* Sketch state only grows.                                                *)
(***************************************************************************)
\* bit i of a bitset kept in bytes
BitAt(bitset, i) == ByteBit(bitset[i \div 8], i % 8)

\* the bits of the byte array bitset
BitsOf(bitset) == { i \in 0..(8 * MaxBits) : (i \div 8) \in DOMAIN bitset }

\* every bit set in before is set in after, and the byte arrays are as long
BitsKept(before, after) ==
    /\ DOMAIN after = DOMAIN before
    /\ \A i \in BitsOf(before) : BitAt(before, i) = 1 => BitAt(after, i) = 1

\* the bits at and above size, the padding of the last byte, are clear
PaddingClear(size, bitset) ==
    \A i \in BitsOf(bitset) : i >= size => BitAt(bitset, i) = 0

\* no register of after is below the one of before, and the arrays are as long
RegistersKept(before, after) ==
    /\ DOMAIN after = DOMAIN before
    /\ \A i \in DOMAIN before : after[i] >= before[i]

\* the sketches of the sketch's precision that hold one item
OneItemSketches ==
    { HLLAdd(HLLNew(counters.hll.size), hasher, U64(n)) : n \in 0..MaxItem }

\* C23: an add clears no bit of the Flajolet-Martin and linear bitsets and
\* lowers no HyperLogLog register, a merge lowers no register, no buffer
\* changes its length, and only bits below size are ever set
C23_StateOnlyGrows ==
    /\ counters.fm.size = previous.fm.size
    /\ BitsKept(previous.fm.bitset, counters.fm.bitset)
    /\ DOMAIN counters.fm.bitset = 0..(div_ceil8(counters.fm.size) - 1)
    /\ PaddingClear(counters.fm.size, counters.fm.bitset)
    /\ counters.linear.size = previous.linear.size
    /\ BitsKept(previous.linear.bit_array, counters.linear.bit_array)
    /\ DOMAIN counters.linear.bit_array = 0..(div_ceil8(counters.linear.size) - 1)
    /\ PaddingClear(counters.linear.size, counters.linear.bit_array)
    /\ counters.hll.size = previous.hll.size
    /\ RegistersKept(previous.hll.registers, counters.hll.registers)
    /\ \A other \in OneItemSketches : \A merged \in {merge(counters.hll, other)} :
          /\ merged.size = counters.hll.size
          /\ RegistersKept(counters.hll.registers, merged.registers)
          /\ RegistersKept(other.registers, merged.registers)
    /\ \A n \in 0..MaxItem : \A added \in {add_u64(counters.hll, hasher, U64(n))} :
          /\ added.size = counters.hll.size
          /\ RegistersKept(counters.hll.registers, added.registers)

\* an add set a new bit in both bitsets, next to bits set before, in counters
\* whose last byte has padding, and raised a register
C23_Witness ==
    /\ counters.fm.size % 8 # 0
    /\ counters.fm.bitset # previous.fm.bitset
    /\ counters.linear.bit_array # previous.linear.bit_array
    /\ \E i \in BitsOf(previous.fm.bitset) : BitAt(previous.fm.bitset, i) = 1
    /\ \E i \in BitsOf(previous.linear.bit_array) : BitAt(previous.linear.bit_array, i) = 1
    /\ counters.hll.registers # previous.hll.registers
    /\ \E other \in OneItemSketches :
          merge(counters.hll, other).registers # counters.hll.registers


(***************************************************************************)
(* The position the Flajolet-Martin estimate reads.                        *)
(***************************************************************************)
\* the unset bits among the size bits of the counter
UnsetBelowSize(self) == { i \in 0..(self.size - 1) : BitAt(self.bitset, i) = 0 }

\* the lowest unset bit among the size bits, or size-1 when all of them are set
StatedPosition(self) ==
    IF UnsetBelowSize(self) = {} THEN self.size - 1
    ELSE CHOOSE i \in UnsetBelowSize(self) : \A j \in UnsetBelowSize(self) : i <= j

\* C24: the position estimate reads is the lowest unset bit among the size bits
\* of the counter, or size-1 when all are set; it never exceeds size-1, and the
\* estimate is 2^position / phi
C24_FMPositionWithinSize ==
    /\ first_zero_bit(counters.fm) = StatedPosition(counters.fm)
    /\ first_zero_bit(counters.fm) <= counters.fm.size - 1
    /\ FMEstimate(counters.fm) = DivBy1e5(Pow2(StatedPosition(counters.fm)), PHI)


(***************************************************************************)
(* The formula of the HyperLogLog estimate.                                *)
(***************************************************************************)
\* C25: estimate returns the linear-counting value m * ln(m / zeros) exactly
\* when the raw estimate is at most 2.5m and a register is zero, the
\* large-range correction exactly when the raw estimate is above 2^64/30, the
\* raw estimate otherwise; a sketch without items estimates 0
C25_EstimateFormulaSelection ==
    fed.op = "estimate" =>
        LET m == Pow2(sketches.size)
            small == HLLRaw(sketches) <= 2500 * m /\ HLLZeros(sketches) > 0
            large == AboveLargeRange(sketches)
        IN  /\ fed.est.branch = "linear_counting" <=> small
            /\ fed.est.branch = "large_range" <=> large
            /\ fed.est.branch = "raw" <=> ~small /\ ~large
            /\ ~(small /\ large)
            /\ small => fed.est.value = ScaledLn(m, m, HLLZeros(sketches))
            /\ large => /\ fed.est.value = LargeRangeValue(sketches)
                        /\ fed.est.unit = "2^64"
                        /\ fed.est.value * HLLDenominator64(sketches)
                              >= AlphaM(sketches.size) * m * m
            /\ (~small /\ ~large) => fed.est.value = HLLRaw(sketches)
            /\ HLLZeros(sketches) = m => fed.est.value = 0 /\ fed.est.unit = "1"

\* the large-range correction was taken for a sketch of several registers
C25_Witness ==
    /\ fed.op = "estimate"
    /\ sketches.size >= 1
    /\ fed.est.branch = "large_range"
    /\ fed.est.value > 0


(***************************************************************************)
(* The sliding buffer of the k-mer stream.                                 *)
(***************************************************************************)
\* C26: while a k-mer stream is active its buffer holds at most k elements
C26_BufferAtMostK ==
    stream.active => Len(stream.buffer) <= stream.k


(***************************************************************************)
(* Header lines and the calls that consume them.                           *)
(***************************************************************************)
\* C27: on a well-formed input a header line is consumed by next_record alone:
\* every header line read was reported, in order, but for the one the cursor
\* rests on, so read_sequence and the k-mer streams discard no pending header
\* and return no bytes of a record that was not reported
C27_HeaderConsumedOnlyByNextRecord ==
    trace.wellFormed =>
        /\ Len(trace.headers) = Len(trace.reported) + PendingHeaders
        /\ trace.reported = SubSeq(IdsOf(trace.headers), 1, Len(trace.reported))


(***************************************************************************)
(* The end of the input.                                                   *)
(***************************************************************************)
\* the identifier of the last record next_record reported, None before the first
LastReported ==
    IF trace.reported = << >> THEN NoId ELSE trace.reported[Len(trace.reported)]

\* next_record returned Ok(false) only with the reader finished, at the end
\* of the input, and id is the identifier of the last record reported
FinishedIsRecorded ==
    /\ (result.op = "next_record" /\ result.ret = "false") =>
            reader.finished /\ input.atEnd
    /\ reader.id = LastReported

\* a call on a finished reader leaves it finished with its id, and if the call
\* is next_record it returns Ok(false)
FinishedStep ==
    reader.finished =>
        /\ reader'.finished
        /\ reader'.id = reader.id
        /\ (result'.op = "next_record" /\ result' # result) => result'.ret = "false"

\* C28: once next_record has returned Ok(false) at the end of the input, the
\* reader stays finished, every later next_record returns Ok(false) whatever
\* calls come in between, and id keeps the identifier of the last record
C28_FinishedIsAbsorbing == []FinishedIsRecorded /\ [][FinishedStep]_vars

\* next_record returned Ok(false) once more on the finished reader, after a
\* record was reported
C28_Witness ==
    /\ result.op = "next_record" /\ result.ret = "false"
    /\ result.prev = "finished"
    /\ reader.finished
    /\ trace.reported # << >>
    /\ reader.id = LastReported


(***************************************************************************)
(* The end of a k-mer stream.                                              *)
(***************************************************************************)
\* C29: for every k, 0 included, a stream whose next() is called again and
\* again eventually returns None
C29_StreamEventuallyEnds ==
    stream.active ~> (result.op = "next" /\ result.ret = "None")

\* every window a stream yields has k bytes
WindowsHaveLengthK ==
    (stream.active /\ trace.phase = "streaming") =>
        \A i \in 1..Len(trace.yielded) : Len(trace.yielded[i]) = stream.k


(***************************************************************************)
(* next_record on a well-formed input.                                     *)
(***************************************************************************)
\* C30: on an input whose first line is a header, no sequence of
\* next_record, read_sequence and kmers calls makes next_record return the
\* format error
C30_NoFormatErrorOnWellFormedInput ==
    (trace.wellFormed /\ result.op = "next_record") => result.ret # "err"

=============================================================================
